---- MODULE Spec2Model ----
(***************************************************************************)
(* Terminal-ScreenTime: the sampler (log_activity) of the four tracker     *)
(* variants, the Log file it appends to, and the CLI operations that touch *)
(* the same Log file.                                                      *)
(*                                                                         *)
(*   "linux"      src/Linux/screentime_tracker.py  + src/Linux/screentime_cli.py *)
(*   "windows"    src/screentime_tracker.py        + src/screentime_cli.py *)
(*   "mac"        src/Mac/screentime_tracker.py    + src/Mac/screentime_cli.py *)
(*   "standalone" src/screentime_standalone.py (tracker and CLI classes)   *)
(*                                                                         *)
(* One loop iteration of log_activity is split at its blocking calls: the  *)
(* three probes, the append to the Log, and the sleep.  Time is in whole   *)
(* seconds (floor of time.time()); a window title is the sequence of its   *)
(* code points, so that encode('ascii','ignore') is computed, not assumed. *)
(***************************************************************************)
EXTENDS Integers, Sequences, FiniteSets, TLC

VARIABLES
    variant,       \* which tracker/CLI pair runs (fixed after Init)
    pc,            \* position of the sampler in log_activity
    stopReason,    \* why the sampler left its loop ("none" while it has not)
    now,           \* wall clock, whole seconds
    ticks,         \* loop iterations started so far
    logExists,     \* os.path.exists(LOG_FILE)
    log,           \* the lines of LOG_FILE, in file order (<<>> when absent)
    idle_time,     \* local: idle_time / idle_seconds of this iteration
    locked,        \* local: screensaver / is_screen_locked() of this iteration
    app_name,      \* local: app_name of this iteration
    window_title,  \* local: window_title of this iteration
    last_app,      \* local of the change-or-heartbeat loop
    last_window,   \* local of the change-or-heartbeat loop
    wrote,         \* outcome of this iteration's append: none/skipped/ok/failed
    changed,       \* this iteration's (app_name, window_title) # (last_app, last_window)
    gap,           \* seconds since the sampler's previous completed append (-1: none yet)
    lastWriteAt,   \* time of the sampler's previous completed append (-1: none yet)
    report,        \* what the CLI's last report operation produced
    platform,      \* sys.platform of the standalone program: "win32" or "posix"
    lockFile,      \* LOCK_FILE: 0 when absent, else the PID written in it
    samplers,      \* per PID, the standalone sampler process: off/starting/running
    cli            \* per standalone CLI: where it is and what check_status said

lockVars == <<platform, lockFile, samplers, cli>>

vars == <<variant, pc, stopReason, now, ticks, logExists, log, idle_time, locked,
          app_name, window_title, last_app, last_window, wrote, changed, gap,
          lastWriteAt, report, platform, lockFile, samplers, cli>>

-----------------------------------------------------------------------------
(* Bounds of the model *)

MaxTicks == 7
MaxLog == 3
MaxProcs == 2
MaxClis == 2

(* Program constants *)

IDLE_THRESHOLD == 300
LOG_INTERVAL == 60
POLL_SLEEP == 5
HEARTBEAT_MOD == 30
MS_PER_SECOND == 1000
ASCII_LIMIT == 128

Variants == {"linux", "windows", "mac", "standalone"}
EveryTick == {"linux", "windows"}
ChangeOrHeartbeat == {"mac", "standalone"}

(* Titles as code points *)
T_SystemIdle == <<83, 121, 115, 116, 101, 109, 32, 73, 100, 108, 101>>
T_ScreenSaver == <<83, 99, 114, 101, 101, 110, 32, 83, 97, 118, 101, 114>>
T_UnknownWindow == <<85, 110, 107, 110, 111, 119, 110, 32, 87, 105, 110, 100, 111, 119>>
T_Unknown == <<85, 110, 107, 110, 111, 119, 110>>
T_Empty == <<>>

(* What the environment can answer to a probe *)
Kinds == {"ok", "missing", "timeout", "nonzero", "garbage", "denied"}
RawIdle == {299999, 300000}
FallbackIdle == {300}
Apps == {"Editor"}
Titles == {<<68, 233>>, <<233>>}
StartTimes == {2, 25}
WriteOutcomes == {"ok", "failed"}

-----------------------------------------------------------------------------
(* The Activity Probe: what the environment answers, and what each variant's *)
(* probe function makes of it.  k is the outcome of the primary tool or API  *)
(* call, fk the outcome of the fallback the function runs (where it has one). *)
(*   "missing"  FileNotFoundError (tool not installed; in the standalone     *)
(*              variant: WINDOWS_APIS_AVAILABLE is False)                    *)
(*   "timeout"  subprocess.TimeoutExpired                                    *)
(*   "nonzero"  the tool ran and returned a non-zero exit status             *)
(*   "garbage"  exit status 0 and output the function cannot parse           *)
(*   "denied"   PermissionError (an OSError that is not FileNotFoundError);  *)
(*              for the Win32 variants: the API call raised                  *)

Returned(v) == [raised |-> FALSE, val |-> v]
Raised == [raised |-> TRUE, val |-> 0]

SoftFailures == {"missing", "timeout"}

IdleOk == {[k |-> "ok", raw |-> r, fk |-> "ok", fraw |-> 0] : r \in RawIdle}

IdleFail ==
    {p \in [k : Kinds \ {"ok"}, raw : {0}, fk : Kinds, fraw : FallbackIdle] :
        /\ p.fk # "ok" => p.fraw = 0
        /\ p.k \in {"garbage", "denied"} => (p.fk = "ok" /\ p.fraw = 0)}

IdleProbes(v) == IF v = "windows" THEN IdleOk ELSE IdleOk \cup IdleFail

\* xprintidle prints milliseconds; the xssstate fallback's number is returned as is.
linux_get_idle_time(p) ==
    IF p.k = "ok" THEN Returned(p.raw \div MS_PER_SECOND)
    ELSE IF p.k \in SoftFailures THEN
        IF p.fk = "ok" THEN Returned(p.fraw)
        ELSE IF p.fk \in SoftFailures \cup {"nonzero"} THEN Returned(0)
        ELSE Raised
    ELSE IF p.k = "nonzero" THEN Returned(0)
    ELSE Raised

\* GetTickCount() - dwTime is in milliseconds.
windows_get_idle_time(p) == Returned(p.raw \div MS_PER_SECOND)

\* ioreg prints nanoseconds; the model's raw unit stands for 10^6 ns, so that
\* the integer division by the units of one second is kept.
mac_get_idle_time(p) ==
    IF p.k = "ok" THEN Returned(p.raw \div MS_PER_SECOND)
    ELSE IF p.k = "nonzero" THEN
        IF p.fk = "denied" THEN Raised ELSE Returned(0)
    ELSE IF p.k \in SoftFailures \cup {"garbage"} THEN Returned(0)
    ELSE Raised

\* millis / 1000.0, then int() in log_activity.
standalone_get_idle_time(p) ==
    IF p.k = "ok" THEN Returned(p.raw \div MS_PER_SECOND) ELSE Returned(0)

get_idle_time(v, p) ==
    CASE v = "linux" -> linux_get_idle_time(p)
      [] v = "windows" -> windows_get_idle_time(p)
      [] v = "mac" -> mac_get_idle_time(p)
      [] v = "standalone" -> standalone_get_idle_time(p)

LockProbes(v) ==
    {[k |-> "ok", val |-> b] : b \in BOOLEAN}
    \cup {[k |-> f, val |-> FALSE] :
            f \in IF v = "windows" THEN {"denied"} ELSE Kinds \ {"ok"}}

\* Linux is_screensaver_active, Windows is_screensaver_active and the standalone
\* is_screen_locked swallow every exception; the macOS is_screen_locked catches
\* TimeoutExpired, CalledProcessError and FileNotFoundError only.
is_screen_locked(v, p) ==
    IF p.k = "ok" THEN Returned(p.val)
    ELSE IF v = "mac" /\ p.k = "denied" THEN Raised
    ELSE Returned(FALSE)

AppProbes(v) ==
    {[k |-> "ok", app |-> a, title |-> t, fk |-> "ok"] : a \in Apps, t \in Titles}
    \cup {p \in [k : (IF v = "windows" THEN {"denied"} ELSE Kinds \ {"ok"}),
                 app : {"Editor"}, title : {<<68>>}, fk : {"ok", "missing"}] :
            p.fk = "missing" => (v = "mac" /\ p.k \in SoftFailures \cup {"nonzero"})}

AppReturned(a, t) == [raised |-> FALSE, app |-> a, title |-> t]
AppRaised == [raised |-> TRUE, app |-> "Unknown", title |-> T_Unknown]

\* get_foreground_app_x11: every failure ends in ("Unknown", "Unknown").
linux_get_foreground_app(p) ==
    IF p.k = "ok" THEN AppReturned(p.app, p.title)
    ELSE AppReturned("Unknown", T_Unknown)

\* The process lookup is inside try/except: ("Unknown", title).
windows_get_foreground_app(p) ==
    IF p.k = "ok" THEN AppReturned(p.app, p.title)
    ELSE AppReturned("Unknown", p.title)

\* osascript failing: the lsappinfo fallback (non-zero exit) or the ps fallback
\* (missing, timeout) may still name the application; the title is then "".
mac_get_foreground_app(p) ==
    IF p.k = "ok" THEN AppReturned(p.app, p.title)
    ELSE IF p.k = "denied" THEN AppRaised
    ELSE IF p.k \in SoftFailures \cup {"nonzero"} /\ p.fk = "ok"
        THEN AppReturned(p.app, T_Empty)
    ELSE AppReturned("Unknown", T_Empty)

standalone_get_foreground_app(p) ==
    IF p.k = "ok" THEN AppReturned(p.app, p.title)
    ELSE IF p.k = "denied" THEN AppReturned("Unknown", p.title)
    ELSE AppReturned("Unknown", T_Unknown)

get_foreground_app(v, p) ==
    CASE v = "linux" -> linux_get_foreground_app(p)
      [] v = "windows" -> windows_get_foreground_app(p)
      [] v = "mac" -> mac_get_foreground_app(p)
      [] v = "standalone" -> standalone_get_foreground_app(p)

-----------------------------------------------------------------------------
(* The Log file *)

Header == [kind |-> "header", timestamp |-> 0, idle_seconds |-> 0,
           app_name |-> "app_name", window_title |-> T_Empty]

Row(ts, idle, app, title) ==
    [kind |-> "record", timestamp |-> ts, idle_seconds |-> idle,
     app_name |-> app, window_title |-> title]

IsPrefix(s, t) == Len(s) <= Len(t) /\ SubSeq(t, 1, Len(s)) = s

\* The same with the file opened 'w' instead of 'a': what was there is lost.
AppendRow_Truncating(lines, row) == <<row>>

\* open(LOG_FILE, 'a') + writer.writerow(row): the row goes after what is there
\* (an absent file holds no lines and is created).
AppendRow(lines, row) == Append(lines, row)

\* The header written without looking whether the file is there.
EnsureHeader_Unconditional(exists, lines) == <<Header>>

\* setup_logging, and the "ensure CSV file exists with headers" block.
EnsureHeader(exists, lines) == IF exists THEN lines ELSE <<Header>>

\* What LOG_FILE can hold when the tracker is started: nothing (absent), the
\* header alone, or the header and a record of an earlier run.
EarlierRow == Row(0, 0, "Editor", <<68>>)
StartLogs == {<<>>, <<Header>>, <<Header, EarlierRow>>}

IsAscii(c) == c < ASCII_LIMIT
IsSpace(c) == c \in {9, 10, 11, 12, 13, 32}
AsciiIgnore(t) == SelectSeq(t, IsAscii)
IsBlank(t) == \A i \in 1..Len(t) : IsSpace(t[i])

\* "Clean the window title": only the every-tick trackers do it.
clean_window_title(v, t) ==
    CASE v = "linux" ->
            IF IsBlank(AsciiIgnore(t)) THEN T_UnknownWindow ELSE AsciiIgnore(t)
      [] v = "windows" -> AsciiIgnore(t)
      [] OTHER -> t

-----------------------------------------------------------------------------
(* The sampler: log_activity *)

Running == {"p_idle", "p_lock", "p_app", "write", "sleep"}

FirstProbe(v) == IF v \in EveryTick THEN "p_idle" ELSE "p_lock"
Interval(v) == IF v \in EveryTick THEN LOG_INTERVAL ELSE POLL_SLEEP

\* active = idle_time < IDLE_THRESHOLD and not screensaver
IsActiveTick(idle, screensaver) == idle < IDLE_THRESHOLD /\ ~screensaver

\* time.time() % 30 < 1
HeartbeatDue(t) == t % HEARTBEAT_MOD < 1

\* app_name != last_app or window_title != last_window or time.time() % 30 < 1
ShouldWrite(app, title, lapp, lwin, t) ==
    app # lapp \/ title # lwin \/ HeartbeatDue(t)

\* The sampler has left log_activity: its locals are gone.  w keeps the outcome
\* of the append that ended it, if one did.
Leave(reason, w) ==
    /\ pc' = "stopped"
    /\ stopReason' = reason
    /\ wrote' = w
    /\ ticks' = 0
    /\ idle_time' = 0
    /\ locked' = FALSE
    /\ app_name' = ""
    /\ window_title' = T_Empty
    /\ last_app' = ""
    /\ last_window' = T_Empty
    /\ changed' = FALSE
    /\ gap' = -1
    /\ lastWriteAt' = -1
    /\ UNCHANGED <<variant, now>>

\* An exception leaves the while loop: caught outside it (linux: except
\* Exception; standalone: finally) or not at all.
RaiseOutOfLoop(what) == Leave(what, IF what = "write_error" THEN "failed" ELSE "none")

\* Nothing has been reported yet.
NoReport == [op |-> "none"]

\* The standalone program not started: no lock file, no sampler process, every
\* CLI at its menu.
Procs == 1..MaxProcs
Clis == 1..MaxClis
AtMenu == [at |-> "menu", said |-> "none"]
LockOff ==
    /\ platform = "posix"
    /\ lockFile = 0
    /\ samplers = [p \in Procs |-> "off"]
    /\ cli = [c \in Clis |-> AtMenu]

Init ==
    /\ variant \in Variants
    /\ pc = "off"
    /\ stopReason = "none"
    /\ now \in StartTimes
    /\ ticks = 0
    /\ log \in StartLogs
    /\ logExists = (log # <<>>)
    /\ idle_time = 0
    /\ locked = FALSE
    /\ app_name = ""
    /\ window_title = T_Empty
    /\ last_app = ""
    /\ last_window = T_Empty
    /\ wrote = "none"
    /\ changed = FALSE
    /\ gap = -1
    /\ lastWriteAt = -1
    /\ LockOff
    /\ report = NoReport

\* log_activity up to the loop: the header is written if the file is absent.
Start ==
    /\ pc = "off"
    /\ UNCHANGED <<report, lockVars>>
    /\ pc' = FirstProbe(variant)
    /\ ticks' = 1
    /\ log' = EnsureHeader(logExists, log)
    /\ logExists' = TRUE
    /\ last_app' = ""
    /\ last_window' = T_Empty
    /\ UNCHANGED <<variant, stopReason, now, idle_time, locked, app_name,
                   window_title, wrote, changed, gap, lastWriteAt>>

GetIdleTime ==
    /\ pc = "p_idle"
    /\ UNCHANGED <<report, lockVars>>
    /\ \E p \in IdleProbes(variant) :
        LET r == get_idle_time(variant, p) IN
        IF r.raised
        THEN RaiseOutOfLoop("probe_error")
        ELSE /\ idle_time' = r.val
             /\ pc' = IF variant \in EveryTick THEN "p_lock" ELSE "write"
             /\ UNCHANGED <<variant, stopReason, now, ticks, locked, app_name,
                            window_title, last_app, last_window, wrote,
                            changed, gap, lastWriteAt>>
    /\ UNCHANGED <<logExists, log>>

IsScreenLocked ==
    /\ pc = "p_lock"
    /\ UNCHANGED <<report, lockVars>>
    /\ \E p \in LockProbes(variant) :
        LET r == is_screen_locked(variant, p) IN
        IF r.raised
        THEN RaiseOutOfLoop("probe_error")
        ELSE /\ locked' = r.val
             /\ IF variant \in EveryTick
                THEN IF IsActiveTick(idle_time, r.val)
                     THEN /\ pc' = "p_app"
                          /\ UNCHANGED <<idle_time, app_name, window_title>>
                     ELSE /\ pc' = "write"
                          /\ app_name' = "Idle"
                          /\ window_title' = T_SystemIdle
                          /\ UNCHANGED idle_time
                ELSE IF r.val
                     THEN /\ pc' = "write"
                          /\ app_name' = "Screen Locked"
                          /\ window_title' = T_ScreenSaver
                          /\ idle_time' = 0
                     ELSE /\ pc' = "p_app"
                          /\ UNCHANGED <<idle_time, app_name, window_title>>
             /\ UNCHANGED <<variant, stopReason, now, ticks, last_app,
                            last_window, wrote, changed, gap, lastWriteAt>>
    /\ UNCHANGED <<logExists, log>>

GetForegroundApp ==
    /\ pc = "p_app"
    /\ UNCHANGED <<report, lockVars>>
    /\ \E p \in AppProbes(variant) :
        LET r == get_foreground_app(variant, p) IN
        IF r.raised
        THEN RaiseOutOfLoop("probe_error")
        ELSE /\ app_name' = r.app
             /\ window_title' = r.title
             /\ pc' = IF variant \in EveryTick THEN "write" ELSE "p_idle"
             /\ UNCHANGED <<variant, stopReason, now, ticks, idle_time, locked,
                            last_app, last_window, wrote, changed, gap,
                            lastWriteAt>>
    /\ UNCHANGED <<logExists, log>>

\* The every-tick trackers: the row is appended on every iteration, and an
\* exception of open/writerow leaves the loop.
WriteEveryTick ==
    /\ pc = "write"
    /\ UNCHANGED <<report, lockVars>>
    /\ variant \in EveryTick
    /\ LET title == clean_window_title(variant, window_title)
           row == Row(now, idle_time, app_name, title)
       IN  \E o \in WriteOutcomes :
                CASE o = "ok" ->
                          /\ log' = AppendRow(log, row)
                          /\ logExists' = TRUE
                          /\ window_title' = title
                          /\ wrote' = "ok"
                          /\ gap' = IF lastWriteAt = -1 THEN -1 ELSE now - lastWriteAt
                          /\ lastWriteAt' = now
                          /\ pc' = "sleep"
                          /\ UNCHANGED <<variant, stopReason, now, ticks,
                                         idle_time, locked, app_name, last_app,
                                         last_window, changed>>
                     [] o = "failed" ->
                          /\ RaiseOutOfLoop("write_error")
                          /\ UNCHANGED <<log, logExists>>

\* The change-or-heartbeat trackers: the append is inside try/except Exception,
\* and last_app/last_window are set after a completed append only.
WriteOnChange ==
    /\ pc = "write"
    /\ UNCHANGED <<report, lockVars>>
    /\ variant \in ChangeOrHeartbeat
    /\ changed' = (app_name # last_app \/ window_title # last_window)
    /\ gap' = IF lastWriteAt = -1 THEN -1 ELSE now - lastWriteAt
    /\ LET row == Row(now, idle_time, app_name, window_title) IN
       IF ShouldWrite(app_name, window_title, last_app, last_window, now)
       THEN \E o \in WriteOutcomes :
                /\ wrote' = o
                /\ CASE o = "ok" ->
                          /\ log' = AppendRow(log, row)
                          /\ logExists' = TRUE
                          /\ last_app' = app_name
                          /\ last_window' = window_title
                          /\ lastWriteAt' = now
                     [] o = "failed" ->
                          UNCHANGED <<log, logExists, last_app, last_window,
                                      lastWriteAt>>
       ELSE /\ wrote' = "skipped"
            /\ UNCHANGED <<log, logExists, last_app, last_window, lastWriteAt>>
    /\ pc' = "sleep"
    /\ UNCHANGED <<variant, stopReason, now, ticks, idle_time, locked, app_name,
                   window_title>>

\* time.sleep(LOG_INTERVAL) / time.sleep(5), then the next iteration (the
\* probes and the append take less than a second together).
Sleep ==
    /\ pc = "sleep"
    /\ UNCHANGED <<report, lockVars>>
    /\ ticks < MaxTicks
    /\ Len(log) < MaxLog
    /\ now' = now + Interval(variant)
    /\ ticks' = ticks + 1
    /\ pc' = FirstProbe(variant)
    /\ idle_time' = 0
    /\ locked' = FALSE
    /\ app_name' = ""
    /\ window_title' = T_Empty
    /\ wrote' = "none"
    /\ changed' = FALSE
    /\ gap' = -1
    /\ UNCHANGED <<variant, stopReason, logExists, log, last_app, last_window,
                   lastWriteAt>>

\* Ctrl+C: KeyboardInterrupt, caught around the loop.
Interrupt ==
    /\ pc \in Running
    /\ UNCHANGED <<report, lockVars>>
    /\ Leave("interrupt", "none")
    /\ UNCHANGED <<logExists, log>>

\* The CLI's stop: pkill -f screentime_tracker.py / taskkill.
StopRequest ==
    /\ pc \in Running
    /\ UNCHANGED <<report, lockVars>>
    /\ Leave("killed", "none")
    /\ UNCHANGED <<logExists, log>>

-----------------------------------------------------------------------------
(* The CLI's Settings menu (the Linux and Windows CLIs have one) *)

SettingsChoices == {"o", "c", "b"}
Confirmations == {"yes", "no"}

\* (c)lear data, confirmed with "yes": os.remove(LOG_FILE), which raises when
\* the file is absent or cannot be removed ("Failed to clear data").
ClearsData(choice, confirm, removable, exists) ==
    choice = "c" /\ confirm = "yes" /\ removable /\ exists

\* settings(), by its effect on the Log file: cleared or left alone.
SettingsStep(cleared) ==
    /\ variant \in EveryTick
    /\ UNCHANGED <<report, lockVars>>
    /\ IF cleared
       THEN /\ logExists' = FALSE
            /\ log' = <<>>
       ELSE UNCHANGED <<logExists, log>>
    /\ UNCHANGED <<variant, pc, stopReason, now, ticks, idle_time, locked,
                   app_name, window_title, last_app, last_window, wrote,
                   changed, gap, lastWriteAt>>

Settings ==
    \E cleared \in {ClearsData(choice, confirm, removable, logExists) :
                        choice \in SettingsChoices, confirm \in Confirmations,
                        removable \in BOOLEAN} :
        SettingsStep(cleared)

-----------------------------------------------------------------------------

Next ==
    \/ Start
    \/ GetIdleTime
    \/ IsScreenLocked
    \/ GetForegroundApp
    \/ WriteEveryTick
    \/ WriteOnChange
    \/ Sleep
    \/ Interrupt
    \/ StopRequest
    \/ Settings

Spec == Init /\ [][Next]_vars

TypeOK ==
    /\ variant \in Variants
    /\ pc \in Running \cup {"off", "stopped"}
    /\ stopReason \in {"none", "interrupt", "killed", "probe_error", "write_error"}
    /\ logExists \in BOOLEAN
    /\ ~logExists => log = <<>>

-----------------------------------------------------------------------------
(* The append in two steps, for cancellation in flight.                     *)
(*   with open(LOG_FILE, 'a', ...) as f:      <- the file exists from here  *)
(*       writer.writerow([...])               <- one f.write of the line,   *)
(*                                               held in the file's buffer  *)
(*   (leaving the with block closes f)        <- the buffer is written      *)
(* pc = "flush": the line is in the buffer of the open file.                *)

AppendSpecEnds == {"exit", "interrupt", "kill"}

\* A line cut short: some of its bytes, no line end.
Partial(row) == [row EXCEPT !.kind = "partial"]

\* The file with no buffer (buffering=0, or one write per field): a kill
\* between two writes leaves the bytes written so far.
CloseFile_Unbuffered(lines, row, how) ==
    IF how = "kill" THEN Append(lines, Partial(row)) ELSE Append(lines, row)

\* How the with block is left decides what becomes of the buffered line:
\*   "exit"       normal exit: close() writes it
\*   "interrupt"  KeyboardInterrupt unwinds through the with block: __exit__
\*                closes the file, which writes it
\*   "kill"       the process is terminated (SIGTERM without a handler,
\*                taskkill /f) or the daemon thread is abandoned at interpreter
\*                exit: the buffer is lost
CloseFile(lines, row, how) ==
    IF how = "kill" THEN lines ELSE AppendRow(lines, row)

InFlightRow == Row(now, idle_time, app_name, window_title)

\* open(..., 'a') and writerow: the file is created if absent, the line is buffered.
BeginAppend ==
    /\ pc = "write"
    /\ UNCHANGED <<report, lockVars>>
    /\ variant \in EveryTick
          \/ ShouldWrite(app_name, window_title, last_app, last_window, now)
    /\ pc' = "flush"
    /\ logExists' = TRUE
    /\ window_title' = clean_window_title(variant, window_title)
    /\ changed' = IF variant \in EveryTick THEN changed
                  ELSE (app_name # last_app \/ window_title # last_window)
    /\ gap' = IF lastWriteAt = -1 THEN -1 ELSE now - lastWriteAt
    /\ UNCHANGED <<variant, stopReason, now, ticks, log, idle_time, locked,
                   app_name, last_app, last_window, wrote, lastWriteAt>>

\* The change-or-heartbeat decision says no.
SkipAppend ==
    /\ pc = "write"
    /\ UNCHANGED <<report, lockVars>>
    /\ variant \in ChangeOrHeartbeat
    /\ ~ShouldWrite(app_name, window_title, last_app, last_window, now)
    /\ pc' = "sleep"
    /\ wrote' = "skipped"
    /\ changed' = FALSE
    /\ gap' = IF lastWriteAt = -1 THEN -1 ELSE now - lastWriteAt
    /\ UNCHANGED <<variant, stopReason, now, ticks, logExists, log, idle_time,
                   locked, app_name, window_title, last_app, last_window,
                   lastWriteAt>>

\* The with block is left normally.
CompleteAppend ==
    /\ pc = "flush"
    /\ UNCHANGED <<report, lockVars>>
    /\ log' = CloseFile(log, InFlightRow, "exit")
    /\ wrote' = "ok"
    /\ lastWriteAt' = now
    /\ pc' = "sleep"
    /\ IF variant \in ChangeOrHeartbeat
       THEN last_app' = app_name /\ last_window' = window_title
       ELSE UNCHANGED <<last_app, last_window>>
    /\ UNCHANGED <<variant, stopReason, now, ticks, logExists, idle_time,
                   locked, app_name, window_title, changed, gap>>

\* close() raises (disk full): nothing of the line is kept.
FailAppend ==
    /\ pc = "flush"
    /\ UNCHANGED <<lockVars, report, logExists, log>>
    /\ IF variant \in EveryTick
       THEN RaiseOutOfLoop("write_error")
       ELSE /\ wrote' = "failed"
            /\ pc' = "sleep"
            /\ UNCHANGED <<variant, stopReason, now, ticks, idle_time, locked,
                           app_name, window_title, last_app, last_window,
                           changed, gap, lastWriteAt>>

\* Ctrl+C while the line is in the buffer.
InterruptInFlight ==
    /\ pc = "flush"
    /\ UNCHANGED <<lockVars, report, logExists>>
    /\ log' = CloseFile(log, InFlightRow, "interrupt")
    /\ Leave("interrupt", "ok")

\* The CLI's stop (pkill -f screentime_tracker.py, taskkill /f) while the line
\* is in the buffer.
KillInFlight ==
    /\ pc = "flush"
    /\ UNCHANGED <<lockVars, report, logExists>>
    /\ log' = CloseFile(log, InFlightRow, "kill")
    /\ Leave("killed", "discarded")

\* --track: log_activity runs in a daemon thread, and the main thread returns
\* from main() on Ctrl+C while the line is in the buffer.
MainThreadExits ==
    /\ pc = "flush"
    /\ variant \in {"windows", "mac"}
    /\ UNCHANGED <<lockVars, report, logExists>>
    /\ log' = CloseFile(log, InFlightRow, "kill")
    /\ Leave("interrupt", "discarded")

AppendNext ==
    \/ Start
    \/ GetIdleTime
    \/ IsScreenLocked
    \/ GetForegroundApp
    \/ BeginAppend
    \/ SkipAppend
    \/ CompleteAppend
    \/ FailAppend
    \/ Sleep
    \/ Interrupt
    \/ StopRequest
    \/ InterruptInFlight
    \/ KillInFlight
    \/ MainThreadExits
    \/ Settings

AppendSpec == Init /\ [][AppendNext]_vars

-----------------------------------------------------------------------------
(* The reports' notion of an active record (today's summary of each CLI) *)

Sentinels == {"Idle", "Screen Locked"}

\* load_data: df['active'] = df['idle_seconds'] < 300; the standalone CLI:
\* today_data[today_data['idle_seconds'] < 300].
idle_below_threshold(rec) == rec.idle_seconds < IDLE_THRESHOLD

\* get_today_summary of the macOS CLI.
mac_active_filter(rec) ==
    /\ rec.idle_seconds < IDLE_THRESHOLD
    /\ rec.app_name # "Screen Locked"
    /\ rec.app_name # "Unknown"

CountsAsActive(v, rec) ==
    IF v = "mac" THEN mac_active_filter(rec) ELSE idle_below_threshold(rec)

-----------------------------------------------------------------------------
(* The reports.  A timestamp is a number of seconds; a calendar date is the *)
(* number of its day.  The Log a report reads holds the header and up to    *)
(* MaxRecords records, in the order the sampler wrote them.                 *)

MaxRecords == 3

SECONDS_PER_DAY == 86400
REPORT_DAYS == 7
NOON == 12 * 3600

\* timestamp.dt.date / row['timestamp'].date()
DateOf(ts) == ts \div SECONDS_PER_DAY
\* datetime.strptime(date, '%Y-%m-%d'): the date at 00:00:00
Midnight(d) == d * SECONDS_PER_DAY

\* The day the reports are asked for, and datetime.now() on it.
Today == 8
ReportNow == Midnight(Today) + NOON

\* Times of the records a report may find: one before the last seven days,
\* some around a midnight, some of today.
ReportTimes ==
    {Midnight(0) + NOON,
     Midnight(1) + NOON + 3600,
     Midnight(2) - 1,
     Midnight(2),
     Midnight(5) + NOON,
     Midnight(Today) + 32400,
     Midnight(Today) + 32460}

\* What a tracker writes beside the timestamp: <<idle_seconds, app_name>>.
\* The every-tick trackers write "Idle" for an idle or locked tick, with the
\* idle time probed; the others write "Screen Locked" with 0 for a locked
\* tick and the foreground app otherwise, whatever the idle time.
Samples(v) ==
    IF v \in EveryTick
    THEN {<<0, "Code.exe">>, <<0, "vscode">>, <<310, "Idle">>, <<299, "Idle">>}
    ELSE {<<0, "Code.exe">>, <<0, "vscode">>, <<0, "Screen Locked">>, <<310, "Code.exe">>}

SampleTitle(app) ==
    CASE app = "Idle" -> T_SystemIdle
      [] app = "Screen Locked" -> T_ScreenSaver
      [] OTHER -> <<68>>

RECURSIVE LogsFrom(_, _, _)
\* The Logs of at most n records of variant v, all later than time t.
LogsFrom(v, t, n) ==
    IF n = 0 THEN {<<>>}
    ELSE {<<>>} \cup
         UNION {{<<Row(ts, x[1], x[2], SampleTitle(x[2]))>> \o rest :
                    rest \in LogsFrom(v, ts, n - 1)} :
                ts \in {u \in ReportTimes : u > t}, x \in Samples(v)}

\* The Log file a report finds: absent, empty (created by an append that
\* wrote nothing), or the header and the records.
ReportFiles(v) ==
    {[exists |-> FALSE, lines |-> <<>>], [exists |-> TRUE, lines |-> <<>>]}
    \cup {[exists |-> TRUE, lines |-> <<Header>> \o recs] :
            recs \in LogsFrom(v, -1, MaxRecords)}

IsRecord(line) == line.kind = "record"

\* A line the readers cannot parse: its timestamp field is cut short or
\* corrupt (Partial), so that strptime and pd.to_datetime raise ValueError.
Unparseable(lines) == {i \in 1..Len(lines) : lines[i].kind = "partial"}

\* What load_data hands to the report: frame "none" (None), "empty" (an empty
\* DataFrame) or "data" with the records read.
Loaded(frame, message, recs) ==
    [frame |-> frame, message |-> message, recs |-> recs]

\* The same without the os.path.exists test: the read of an absent file is
\* caught like any other error.
linux_load_data_Unchecked(exists, lines) ==
    IF ~exists \/ lines = <<>> THEN Loaded("none", "Error loading data", <<>>)
    ELSE Loaded("data", "", SelectSeq(lines, IsRecord))

\* pd.read_csv of a file with no line at all raises EmptyDataError, and
\* pd.to_datetime of a column with an unparseable timestamp ValueError: both
\* are caught by the except around the whole load.
linux_load_data(exists, lines) ==
    IF ~exists THEN Loaded("none", "No data found. Start the tracker first!", <<>>)
    ELSE IF lines = <<>> \/ Unparseable(lines) # {}
        THEN Loaded("none", "Error loading data", <<>>)
    ELSE Loaded("data", "", SelectSeq(lines, IsRecord))

mac_load_data(exists, lines) ==
    IF ~exists THEN Loaded("empty", "No data file found", <<>>)
    ELSE IF SelectSeq(lines, IsRecord) = <<>> \/ Unparseable(lines) # {}
        THEN Loaded("empty", "Failed to load data", <<>>)
    ELSE Loaded("data", "", SelectSeq(lines, IsRecord))

standalone_load_data_pandas(exists, lines) ==
    IF ~exists \/ SelectSeq(lines, IsRecord) = <<>> \/ Unparseable(lines) # {}
    THEN Loaded("none", "", <<>>)
    ELSE Loaded("data", "", SelectSeq(lines, IsRecord))

\* Indices of the records of recs that satisfy Keep.
Where(recs, Keep(_)) == {i \in 1..Len(recs) : Keep(recs[i])}
\* nunique / value_counts over the records at the indices I.
AppsAt(recs, I) == {recs[i].app_name : i \in I}
CountsAt(recs, I) ==
    [a \in AppsAt(recs, I) |-> Cardinality({i \in I : recs[i].app_name = a})]

\* A report that ends with a message and no figures.
NoData(op, message) == [op |-> op, outcome |-> "nodata", message |-> message]

\* A report with figures: the active time as a number of records, with the
\* seconds one record stands for, and the records per app.
Summary(op, I, recs, unit) ==
    [op |-> op, outcome |-> "report", message |-> "",
     active |-> Cardinality(I), unit |-> unit,
     usage |-> CountsAt(recs, I)]

\* The same with the line "Apps Used" / "Unique Apps": nunique of app_name.
SummaryWithApps(op, I, recs, unit) ==
    Summary(op, I, recs, unit) @@ [unique_apps |-> Cardinality(AppsAt(recs, I))]

IsToday(rec, t) == DateOf(rec.timestamp) = DateOf(t)

\* today_summary of the Linux and Windows CLIs: "minutes" are records.
linux_today_summary(exists, lines, t) ==
    LET ld == linux_load_data(exists, lines)
        today_data == Where(ld.recs, LAMBDA r : IsToday(r, t))
        active == {i \in today_data : idle_below_threshold(ld.recs[i])}
    IN  IF ld.frame = "none" THEN NoData("today", ld.message)
        ELSE IF today_data = {}
            THEN NoData("today", "No activity recorded for today")
        ELSE SummaryWithApps("today", active, ld.recs, LOG_INTERVAL)

\* get_today_summary of the macOS CLI: a record is 5 seconds.
mac_get_today_summary(exists, lines, t) ==
    LET ld == mac_load_data(exists, lines)
        today_data == Where(ld.recs, LAMBDA r : IsToday(r, t))
        active_data == {i \in today_data : mac_active_filter(ld.recs[i])}
    IN  IF ld.frame = "empty" THEN NoData("today", "No data available for today.")
        ELSE IF today_data = {}
            THEN NoData("today", "No activity recorded for today.")
        ELSE IF active_data = {}
            THEN NoData("today", "No active time recorded for today.")
        ELSE Summary("today", active_data, ld.recs, POLL_SLEEP)

\* _today_summary_pandas of the standalone CLI: "minutes" are records.
standalone_today_summary(exists, lines, t) ==
    LET ld == standalone_load_data_pandas(exists, lines)
        today_data == Where(ld.recs, LAMBDA r : IsToday(r, t))
        active_data == {i \in today_data : idle_below_threshold(ld.recs[i])}
    IN  IF ld.frame = "none" \/ today_data = {}
        THEN NoData("today", "No activity recorded for today")
        ELSE SummaryWithApps("today", active_data, ld.recs, LOG_INTERVAL)

\* load_data_simple of the standalone CLI (no pandas): the rows are parsed
\* one by one inside one try, so the first row that does not parse ends the
\* load with the rows read so far.
load_data_simple(exists, lines) ==
    LET bad == Unparseable(lines)
        first == CHOOSE i \in bad : \A j \in bad : i <= j
        read == IF bad = {} THEN lines ELSE SubSeq(lines, 1, first - 1)
    IN  Loaded("data", "", IF exists THEN SelectSeq(read, IsRecord) ELSE <<>>)

\* _today_summary_simple of the standalone CLI.
standalone_today_summary_simple(exists, lines, t) ==
    LET data == load_data_simple(exists, lines).recs
        today_data == Where(data, LAMBDA r : IsToday(r, t))
        active_data == {i \in today_data : idle_below_threshold(data[i])}
    IN  IF data = <<>> \/ today_data = {}
        THEN NoData("today", "No activity recorded for today")
        ELSE SummaryWithApps("today", active_data, data, LOG_INTERVAL)

today_summary(v, exists, lines, t) ==
    CASE v \in EveryTick -> linux_today_summary(exists, lines, t)
      [] v = "mac" -> mac_get_today_summary(exists, lines, t)
      [] v = "standalone" -> standalone_today_summary(exists, lines, t)

\* The dates of the records at the indices I (groupby date).
DatesAt(recs, I) == {DateOf(recs[i].timestamp) : i \in I}
OnDate(recs, I, d) == {i \in I : DateOf(recs[i].timestamp) = d}

\* A weekly report: per date of `dates` the records counted, the total, the
\* daily average as the fraction num/den, and the records per app where the
\* report lists apps.
Weekly(recs, dates, Counted(_), total, num, den, listed) ==
    [op |-> "weekly", outcome |-> "report", message |-> "",
     daily |-> [d \in dates |-> Cardinality(Counted(d))],
     active |-> total,
     average |-> [num |-> num, den |-> den],
     usage |-> CountsAt(recs, listed)]

\* weekly_report of the Linux and Windows CLIs: the last 7 x 24 hours, one
\* row per date that has a record.
linux_weekly_report(exists, lines, t) ==
    LET ld == linux_load_data(exists, lines)
        recs == ld.recs
        week_ago == t - REPORT_DAYS * SECONDS_PER_DAY
        week_data == Where(recs, LAMBDA r : r.timestamp > week_ago)
        active == {i \in week_data : idle_below_threshold(recs[i])}
    IN  IF ld.frame = "none" THEN NoData("weekly", ld.message)
        ELSE IF week_data = {}
            THEN NoData("weekly", "No activity recorded in the last 7 days")
        ELSE Weekly(recs, DatesAt(recs, week_data),
                    LAMBDA d : OnDate(recs, active, d),
                    Cardinality(active), Cardinality(active), REPORT_DAYS, {})
             @@ [daily_apps |->
                    [d \in DatesAt(recs, week_data) |->
                        Cardinality(AppsAt(recs, OnDate(recs, active, d)))]]

\* get_weekly_summary of the macOS CLI: today and the six dates before it,
\* one row for each of them.
mac_get_weekly_summary(exists, lines, t) ==
    LET ld == mac_load_data(exists, lines)
        recs == ld.recs
        end_date == DateOf(t)
        start_date == end_date - 6
        week_data == Where(recs, LAMBDA r : /\ DateOf(r.timestamp) >= start_date
                                            /\ DateOf(r.timestamp) <= end_date)
        active_entries == {i \in week_data : /\ recs[i].idle_seconds < IDLE_THRESHOLD
                                             /\ recs[i].app_name # "Screen Locked"}
        active_week_data == {i \in week_data : mac_active_filter(recs[i])}
    IN  IF ld.frame = "empty"
        THEN NoData("weekly", "No data available for weekly summary.")
        ELSE IF week_data = {}
            THEN NoData("weekly", "No activity recorded for the past week.")
        ELSE Weekly(recs, start_date..end_date,
                    LAMBDA d : OnDate(recs, active_entries, d),
                    Cardinality(active_entries), Cardinality(active_entries),
                    REPORT_DAYS, active_week_data)

\* weekly_summary of the standalone CLI: every record from six dates ago on
\* is counted, one row per date that has a record; the average is int(total / 7).
standalone_weekly_summary(exists, lines, t) ==
    LET ld == standalone_load_data_pandas(exists, lines)
        recs == ld.recs
        week_start == DateOf(t) - 6
        week_data == Where(recs, LAMBDA r : DateOf(r.timestamp) >= week_start)
    IN  IF ld.frame = "none"
        THEN NoData("weekly", "No activity recorded this week")
        ELSE IF week_data = {}
            THEN NoData("weekly", "No activity recorded for the past 7 days")
        ELSE Weekly(recs, DatesAt(recs, week_data),
                    LAMBDA d : OnDate(recs, week_data, d),
                    Cardinality(week_data),
                    Cardinality(week_data) \div REPORT_DAYS, 1, week_data)

weekly_report(v, exists, lines, t) ==
    CASE v \in EveryTick -> linux_weekly_report(exists, lines, t)
      [] v = "mac" -> mac_get_weekly_summary(exists, lines, t)
      [] v = "standalone" -> standalone_weekly_summary(exists, lines, t)

-----------------------------------------------------------------------------
(* Categories.  An app name and a keyword are compared as the sequences of  *)
(* their code points, so that lower(), 'isin' and 'in' are computed.        *)

\* The app names a Log of the model can hold.
AppNames ==
    {"Code.exe", "vscode", "Idle", "Screen Locked", "Editor", "Unknown", "chrome.exe"}

\* The app names, by their code points.
NameChars(app) ==
    CASE app = "Code.exe" -> <<67, 111, 100, 101, 46, 101, 120, 101>>
      [] app = "vscode" -> <<118, 115, 99, 111, 100, 101>>
      [] app = "Idle" -> <<73, 100, 108, 101>>
      [] app = "Screen Locked" -> <<83, 99, 114, 101, 101, 110, 32, 76, 111, 99, 107, 101, 100>>
      [] app = "Editor" -> <<69, 100, 105, 116, 111, 114>>
      [] app = "Unknown" -> T_Unknown
      [] app = "chrome.exe" -> <<99, 104, 114, 111, 109, 101, 46, 101, 120, 101>>

\* str.lower(), on the letters A-Z.
LowerChar(c) == IF c >= 65 /\ c <= 90 THEN c + 32 ELSE c
Lower(w) == [i \in 1..Len(w) |-> LowerChar(w[i])]

\* k in w
IsSubstring(k, w) ==
    \E i \in 0..(Len(w) - Len(k)) : SubSeq(w, i + 1, i + Len(k)) = k

(* The lists of productivity_analysis *)
\* The list productive_apps of productivity_analysis, in the Linux and in the Windows CLI.
productive_apps(v) ==
    IF v = "linux"
    THEN
        \* 'code', 'vim', 'emacs', 'gedit', 'kate', 'atom', 'sublime_text',
        \* 'pycharm', 'intellij', 'eclipse', 'vscode', 'nano', 'libreoffice',
        \* 'writer', 'calc', 'impress', 'gimp', 'inkscape', 'blender'
        {<<99, 111, 100, 101>>,
         <<118, 105, 109>>,
         <<101, 109, 97, 99, 115>>,
         <<103, 101, 100, 105, 116>>,
         <<107, 97, 116, 101>>,
         <<97, 116, 111, 109>>,
         <<115, 117, 98, 108, 105, 109, 101, 95, 116, 101, 120, 116>>,
         <<112, 121, 99, 104, 97, 114, 109>>,
         <<105, 110, 116, 101, 108, 108, 105, 106>>,
         <<101, 99, 108, 105, 112, 115, 101>>,
         <<118, 115, 99, 111, 100, 101>>,
         <<110, 97, 110, 111>>,
         <<108, 105, 98, 114, 101, 111, 102, 102, 105, 99, 101>>,
         <<119, 114, 105, 116, 101, 114>>,
         <<99, 97, 108, 99>>,
         <<105, 109, 112, 114, 101, 115, 115>>,
         <<103, 105, 109, 112>>,
         <<105, 110, 107, 115, 99, 97, 112, 101>>,
         <<98, 108, 101, 110, 100, 101, 114>>}
    ELSE
        \* 'code.exe', 'notepad++.exe', 'sublime_text.exe', 'atom.exe',
        \* 'pycharm64.exe', 'devenv.exe', 'git.exe'
        {<<99, 111, 100, 101, 46, 101, 120, 101>>,
         <<110, 111, 116, 101, 112, 97, 100, 43, 43, 46, 101, 120, 101>>,
         <<115, 117, 98, 108, 105, 109, 101, 95, 116, 101, 120, 116, 46, 101, 120, 101>>,
         <<97, 116, 111, 109, 46, 101, 120, 101>>,
         <<112, 121, 99, 104, 97, 114, 109, 54, 52, 46, 101, 120, 101>>,
         <<100, 101, 118, 101, 110, 118, 46, 101, 120, 101>>,
         <<103, 105, 116, 46, 101, 120, 101>>}

\* A social list that shares its names with the productive list.
social_apps_Overlapping(v) == productive_apps(v)

\* The list social_apps of productivity_analysis, in the Linux and in the Windows CLI.
social_apps(v) ==
    IF v = "linux"
    THEN
        \* 'firefox', 'chrome', 'chromium', 'discord', 'telegram', 'slack',
        \* 'thunderbird', 'evolution', 'pidgin', 'signal', 'whatsapp', 'teams'
        {<<102, 105, 114, 101, 102, 111, 120>>,
         <<99, 104, 114, 111, 109, 101>>,
         <<99, 104, 114, 111, 109, 105, 117, 109>>,
         <<100, 105, 115, 99, 111, 114, 100>>,
         <<116, 101, 108, 101, 103, 114, 97, 109>>,
         <<115, 108, 97, 99, 107>>,
         <<116, 104, 117, 110, 100, 101, 114, 98, 105, 114, 100>>,
         <<101, 118, 111, 108, 117, 116, 105, 111, 110>>,
         <<112, 105, 100, 103, 105, 110>>,
         <<115, 105, 103, 110, 97, 108>>,
         <<119, 104, 97, 116, 115, 97, 112, 112>>,
         <<116, 101, 97, 109, 115>>}
    ELSE
        \* 'chrome.exe', 'firefox.exe', 'discord.exe', 'telegram.exe',
        \* 'whatsapp.exe', 'slack.exe'
        {<<99, 104, 114, 111, 109, 101, 46, 101, 120, 101>>,
         <<102, 105, 114, 101, 102, 111, 120, 46, 101, 120, 101>>,
         <<100, 105, 115, 99, 111, 114, 100, 46, 101, 120, 101>>,
         <<116, 101, 108, 101, 103, 114, 97, 109, 46, 101, 120, 101>>,
         <<119, 104, 97, 116, 115, 97, 112, 112, 46, 101, 120, 101>>,
         <<115, 108, 97, 99, 107, 46, 101, 120, 101>>}

\* The list entertainment_apps of productivity_analysis, in the Linux and in the Windows CLI.
entertainment_apps(v) ==
    IF v = "linux"
    THEN
        \* 'vlc', 'rhythmbox', 'spotify', 'steam', 'lutris', 'minecraft', 'totem',
        \* 'audacity', 'kodi', 'mpv', 'clementine'
        {<<118, 108, 99>>,
         <<114, 104, 121, 116, 104, 109, 98, 111, 120>>,
         <<115, 112, 111, 116, 105, 102, 121>>,
         <<115, 116, 101, 97, 109>>,
         <<108, 117, 116, 114, 105, 115>>,
         <<109, 105, 110, 101, 99, 114, 97, 102, 116>>,
         <<116, 111, 116, 101, 109>>,
         <<97, 117, 100, 97, 99, 105, 116, 121>>,
         <<107, 111, 100, 105>>,
         <<109, 112, 118>>,
         <<99, 108, 101, 109, 101, 110, 116, 105, 110, 101>>}
    ELSE
        \* 'spotify.exe', 'vlc.exe', 'netflix.exe', 'youtube.exe', 'steam.exe',
        \* 'epicgameslauncher.exe'
        {<<115, 112, 111, 116, 105, 102, 121, 46, 101, 120, 101>>,
         <<118, 108, 99, 46, 101, 120, 101>>,
         <<110, 101, 116, 102, 108, 105, 120, 46, 101, 120, 101>>,
         <<121, 111, 117, 116, 117, 98, 101, 46, 101, 120, 101>>,
         <<115, 116, 101, 97, 109, 46, 101, 120, 101>>,
         <<101, 112, 105, 99, 103, 97, 109, 101, 115, 108, 97, 117, 110, 99, 104, 101, 114, 46, 101, 120, 101>>}

-----------------------------------------------------------------------------
(* Per-app statistics and the productivity analysis *)

\* The last 7 x 24 hours: df[df['timestamp'] > week_ago]
Recent(recs, t) ==
    Where(recs, LAMBDA r : r.timestamp > t - REPORT_DAYS * SECONDS_PER_DAY)

MaxOf(S) == CHOOSE x \in S : \A y \in S : y <= x
MinOf(S) == CHOOSE x \in S : \A y \in S : x <= y

RECURSIVE SumOver(_, _)
\* sum of f over the set S of its arguments
SumOver(f, S) ==
    IF S = {} THEN 0
    ELSE LET x == CHOOSE y \in S : TRUE IN f[x] + SumOver(f, S \ {x})

\* app_usage_stats of the Linux and Windows CLIs: per app of the active
\* records, usage_minutes = sum of 'active', last_used = max of 'timestamp',
\* sessions = count of 'timestamp'.
linux_app_usage_stats(exists, lines, t) ==
    LET ld == linux_load_data(exists, lines)
        recs == ld.recs
        recent_data == Recent(recs, t)
        active == {i \in recent_data : idle_below_threshold(recs[i])}
    IN  IF ld.frame = "none" THEN NoData("apps", ld.message)
        ELSE IF recent_data = {} THEN NoData("apps", "No recent activity data")
        ELSE [op |-> "apps", outcome |-> "report", message |-> "",
              active |-> Cardinality(active), unit |-> LOG_INTERVAL,
              usage |-> CountsAt(recs, active),
              sessions |-> CountsAt(recs, active),
              last_used |-> [a \in AppsAt(recs, active) |->
                                MaxOf({recs[i].timestamp : i \in
                                        {j \in active : recs[j].app_name = a}})]]

\* round(x, 1) of x = n/d tenths: to the nearest, a half to the even one.
RoundHalfEven(n, d) ==
    LET q == n \div d
        r == n % d
    IN  IF 2 * r < d THEN q
        ELSE IF 2 * r > d THEN q + 1
        ELSE IF q % 2 = 0 THEN q ELSE q + 1

\* (app_usage * 5 / 60).round(1), in tenths of a minute
mac_app_time(count) == RoundHalfEven(count * POLL_SLEEP * 10, LOG_INTERVAL)

\* get_app_statistics of the macOS CLI: the categories, in the order of the
\* dict, each with its keywords.
MacCategories ==
    <<
      \* 'Xcode', 'Terminal', 'VSCode', 'Visual Studio Code', 'Sublime Text',
      \* 'Atom', 'PyCharm', 'IntelliJ IDEA', 'Eclipse', 'Git'
      <<"Development",
        {<<88, 99, 111, 100, 101>>,
         <<84, 101, 114, 109, 105, 110, 97, 108>>,
         <<86, 83, 67, 111, 100, 101>>,
         <<86, 105, 115, 117, 97, 108, 32, 83, 116, 117, 100, 105, 111, 32, 67, 111, 100, 101>>,
         <<83, 117, 98, 108, 105, 109, 101, 32, 84, 101, 120, 116>>,
         <<65, 116, 111, 109>>,
         <<80, 121, 67, 104, 97, 114, 109>>,
         <<73, 110, 116, 101, 108, 108, 105, 74, 32, 73, 68, 69, 65>>,
         <<69, 99, 108, 105, 112, 115, 101>>,
         <<71, 105, 116>>} >>,
      \* 'Pages', 'Numbers', 'Keynote', 'Microsoft Word', 'Microsoft Excel',
      \* 'Microsoft PowerPoint', 'TextEdit'
      <<"Office/Productivity",
        {<<80, 97, 103, 101, 115>>,
         <<78, 117, 109, 98, 101, 114, 115>>,
         <<75, 101, 121, 110, 111, 116, 101>>,
         <<77, 105, 99, 114, 111, 115, 111, 102, 116, 32, 87, 111, 114, 100>>,
         <<77, 105, 99, 114, 111, 115, 111, 102, 116, 32, 69, 120, 99, 101, 108>>,
         <<77, 105, 99, 114, 111, 115, 111, 102, 116, 32, 80, 111, 119, 101, 114, 80, 111, 105, 110, 116>>,
         <<84, 101, 120, 116, 69, 100, 105, 116>>} >>,
      \* 'Adobe Photoshop', 'Adobe Illustrator', 'Sketch', 'Figma', 'Canva'
      <<"Design",
        {<<65, 100, 111, 98, 101, 32, 80, 104, 111, 116, 111, 115, 104, 111, 112>>,
         <<65, 100, 111, 98, 101, 32, 73, 108, 108, 117, 115, 116, 114, 97, 116, 111, 114>>,
         <<83, 107, 101, 116, 99, 104>>,
         <<70, 105, 103, 109, 97>>,
         <<67, 97, 110, 118, 97>>} >>,
      \* 'Safari', 'Chrome', 'Firefox', 'Edge', 'Opera'
      <<"Web Browsing",
        {<<83, 97, 102, 97, 114, 105>>,
         <<67, 104, 114, 111, 109, 101>>,
         <<70, 105, 114, 101, 102, 111, 120>>,
         <<69, 100, 103, 101>>,
         <<79, 112, 101, 114, 97>>} >>,
      \* 'Mail', 'Messages', 'Slack', 'Discord', 'Zoom', 'Teams'
      <<"Communication",
        {<<77, 97, 105, 108>>,
         <<77, 101, 115, 115, 97, 103, 101, 115>>,
         <<83, 108, 97, 99, 107>>,
         <<68, 105, 115, 99, 111, 114, 100>>,
         <<90, 111, 111, 109>>,
         <<84, 101, 97, 109, 115>>} >>,
      \* 'YouTube', 'Netflix', 'Spotify', 'Music', 'VLC', 'QuickTime'
      <<"Entertainment",
        {<<89, 111, 117, 84, 117, 98, 101>>,
         <<78, 101, 116, 102, 108, 105, 120>>,
         <<83, 112, 111, 116, 105, 102, 121>>,
         <<77, 117, 115, 105, 99>>,
         <<86, 76, 67>>,
         <<81, 117, 105, 99, 107, 84, 105, 109, 101>>} >>,
      \* 'Finder', 'System Preferences', 'Activity Monitor', 'Console'
      <<"System",
        {<<70, 105, 110, 100, 101, 114>>,
         <<83, 121, 115, 116, 101, 109, 32, 80, 114, 101, 102, 101, 114, 101, 110, 99, 101, 115>>,
         <<65, 99, 116, 105, 118, 105, 116, 121, 32, 77, 111, 110, 105, 116, 111, 114>>,
         <<67, 111, 110, 115, 111, 108, 101>>} >>
    >>

MacCategoryNames == {MacCategories[i][1] : i \in 1..Len(MacCategories)} \cup {"Other"}

\* any(keyword.lower() in app.lower() for keyword in keywords)
MatchesAny(app, keywords) ==
    \E k \in keywords : IsSubstring(Lower(k), Lower(NameChars(app)))

\* The loop over categories.items(): the first category that matches, and
\* the uncategorized time (shown as "Other") when none does.
mac_category(app) ==
    LET hits == {i \in 1..Len(MacCategories) : MatchesAny(app, MacCategories[i][2])}
    IN  IF hits = {} THEN "Other" ELSE MacCategories[MinOf(hits)][1]

\* The category of each app name of the model, computed once.
MacCategoryOf == [a \in AppNames |-> mac_category(a)]

\* get_app_statistics of the macOS CLI: all the records of the Log that pass
\* the active filter; times in tenths of a minute.
mac_get_app_statistics(exists, lines) ==
    LET ld == mac_load_data(exists, lines)
        recs == ld.recs
        active_data == Where(recs, mac_active_filter)
        app_usage == CountsAt(recs, active_data)
        app_time == [a \in DOMAIN app_usage |-> mac_app_time(app_usage[a])]
        categorized == [c \in MacCategoryNames |->
                          SumOver(app_time, {a \in DOMAIN app_time : MacCategoryOf[a] = c})]
        total_time == SumOver(app_time, DOMAIN app_time)
        productive_time == categorized["Development"]
                            + categorized["Office/Productivity"]
                            + categorized["Design"]
    IN  IF ld.frame = "empty"
        THEN NoData("apps", "No data available for app statistics.")
        ELSE IF active_data = {} THEN NoData("apps", "No active app data available.")
        ELSE [op |-> "apps", outcome |-> "report", message |-> "",
              active |-> Cardinality(active_data), unit |-> POLL_SLEEP,
              usage |-> app_usage,
              usage_tenths |-> app_time,
              categories |-> categorized,
              total_time |-> total_time,
              score |-> [num |-> productive_time * 100, den |-> total_time]]

\* app_statistics of the standalone CLI: every record of the Log counts.
standalone_app_statistics(exists, lines) ==
    LET ld == standalone_load_data_pandas(exists, lines)
        recs == ld.recs
        all == 1..Len(recs)
    IN  IF ld.frame = "none" THEN NoData("apps", "No activity data available")
        ELSE [op |-> "apps", outcome |-> "report", message |-> "",
              active |-> Cardinality(all), unit |-> LOG_INTERVAL,
              usage |-> CountsAt(recs, all)]

app_usage_stats(v, exists, lines, t) ==
    CASE v \in EveryTick -> linux_app_usage_stats(exists, lines, t)
      [] v = "mac" -> mac_get_app_statistics(exists, lines)
      [] v = "standalone" -> standalone_app_statistics(exists, lines)

\* df['app_name'].str.lower().isin([app.lower() for app in apps])
IsIn(app, apps) == Lower(NameChars(app)) \in {Lower(k) : k \in apps}

\* The names of the model each list holds, computed once per variant.
Listed ==
    [v \in EveryTick |->
        [productive |-> {a \in AppNames : IsIn(a, productive_apps(v))},
         social |-> {a \in AppNames : IsIn(a, social_apps(v))},
         entertainment |-> {a \in AppNames : IsIn(a, entertainment_apps(v))}]]

\* The bands with strict comparisons.
score_label_Strict(productive_time, total_time) ==
    IF productive_time * 100 > 70 * total_time THEN "Excellent"
    ELSE IF productive_time * 100 > 50 * total_time THEN "Good"
    ELSE IF productive_time * 100 > 30 * total_time THEN "Average"
    ELSE "Needs Improvement"

\* The band of productive_time / total_time * 100, for total_time > 0.
score_label(productive_time, total_time) ==
    IF productive_time * 100 >= 70 * total_time THEN "Excellent"
    ELSE IF productive_time * 100 >= 50 * total_time THEN "Good"
    ELSE IF productive_time * 100 >= 30 * total_time THEN "Average"
    ELSE "Needs Improvement"

\* What productivity_analysis prints from its four sums.
productivity_output(productive_time, social_time, entertainment_time, total_time) ==
    IF total_time > 0
    THEN [op |-> "productivity", outcome |-> "report", message |-> "",
          active |-> total_time,
          categories |->
              [Productive |-> productive_time,
               Social |-> social_time,
               Entertainment |-> entertainment_time,
               Other |-> total_time - productive_time - social_time
                            - entertainment_time],
          score |-> [num |-> productive_time * 100, den |-> total_time],
          label |-> score_label(productive_time, total_time)]
    ELSE NoData("productivity", "No active time recorded")

\* productivity_analysis of the Linux and Windows CLIs.
productivity_analysis(v, exists, lines, t) ==
    LET ld == linux_load_data(exists, lines)
        recs == ld.recs
        recent_data == Recent(recs, t)
        active_data == {i \in recent_data : idle_below_threshold(recs[i])}
        TimeIn(names) == Cardinality({i \in active_data : recs[i].app_name \in names})
    IN  IF ld.frame = "none" THEN NoData("productivity", ld.message)
        ELSE IF recent_data = {}
            THEN NoData("productivity", "No recent activity data")
        ELSE productivity_output(TimeIn(Listed[v].productive),
                                 TimeIn(Listed[v].social),
                                 TimeIn(Listed[v].entertainment),
                                 Cardinality(active_data))

-----------------------------------------------------------------------------
(* The custom date range, and the report script *)

\* What is typed at the prompts: a date, or (-1) text that strptime rejects.
RangeDates == {-1, 1, 2, Today}

\* The filter with the end of the range included.
InRange_Inclusive(ts, start_dt, end_dt) == ts >= start_dt /\ ts <= end_dt

\* (df['timestamp'] >= start_dt) & (df['timestamp'] < end_dt)
InRange(ts, start_dt, end_dt) == ts >= start_dt /\ ts < end_dt

\* custom_date_range of the Linux and Windows CLIs, for the dates S and E
\* typed in YYYY-MM-DD format.
custom_date_range(exists, lines, S, E) ==
    LET start_dt == Midnight(S)
        end_dt == Midnight(E) + SECONDS_PER_DAY
        ld == linux_load_data(exists, lines)
        recs == ld.recs
        filtered_data == Where(recs, LAMBDA r : InRange(r.timestamp, start_dt, end_dt))
        active == {i \in filtered_data : idle_below_threshold(recs[i])}
        days_span == DateOf(end_dt - start_dt)
        asked == [start |-> S, end |-> E, loaded |-> TRUE,
                  selected |-> {recs[i].timestamp : i \in filtered_data}]
    IN  IF S < 0 \/ E < 0
            THEN [op |-> "custom", outcome |-> "invalid",
                  message |-> "Invalid date format. Please use YYYY-MM-DD",
                  start |-> S, end |-> E, loaded |-> FALSE, selected |-> {}]
        ELSE IF ld.frame = "none" THEN NoData("custom", ld.message) @@ asked
        ELSE IF filtered_data = {}
            THEN NoData("custom", "No data found for the period") @@ asked
        ELSE SummaryWithApps("custom", active, recs, LOG_INTERVAL) @@ asked
             @@ [days_span |-> days_span,
                 average |-> IF days_span > 0
                             THEN [num |-> Cardinality(active), den |-> days_span]
                             ELSE [num |-> 0, den |-> 1]]

\* screentime_report.py (Windows): load_data has no try, and generate_report
\* counts unique_apps over all the records of a date.
generate_report(exists, lines, t) ==
    LET recs == SelectSeq(lines, IsRecord)
        df == Recent(recs, t)
        active == {i \in df : idle_below_threshold(recs[i])}
    IN  IF ~exists THEN NoData("script", "No data found. Start the tracker first!")
        ELSE IF lines = <<>>
            THEN [op |-> "script", outcome |-> "raised", message |-> "EmptyDataError"]
        ELSE [op |-> "script", outcome |-> "report", message |-> "",
              daily |-> [d \in DatesAt(recs, df) |->
                            Cardinality(OnDate(recs, active, d))],
              daily_apps |-> [d \in DatesAt(recs, df) |->
                                Cardinality(AppsAt(recs, OnDate(recs, df, d)))],
              active |-> Cardinality(active), unit |-> LOG_INTERVAL,
              usage |-> CountsAt(recs, active)]

\* The reports are asked for with the sampler not started; they read the Log
\* and leave it as it is.
ReportInit ==
    /\ variant \in Variants
    /\ \E f \in ReportFiles(variant) : logExists = f.exists /\ log = f.lines
    /\ now = ReportNow
    /\ pc = "off"
    /\ stopReason = "none"
    /\ ticks = 0
    /\ idle_time = 0
    /\ locked = FALSE
    /\ app_name = ""
    /\ window_title = T_Empty
    /\ last_app = ""
    /\ last_window = T_Empty
    /\ wrote = "none"
    /\ changed = FALSE
    /\ gap = -1
    /\ lastWriteAt = -1
    /\ LockOff
    /\ report = NoReport

\* One report per run: what it prints depends on the Log and the clock only.
Reports(r) ==
    /\ report = NoReport
    /\ report' = r
    /\ UNCHANGED <<variant, pc, stopReason, now, ticks, logExists, log,
                   idle_time, locked, app_name, window_title, last_app,
                   last_window, wrote, changed, gap, lastWriteAt, lockVars>>

TodaySummary ==
    /\ variant \in Variants
    /\ Reports(today_summary(variant, logExists, log, now))

WeeklyReport ==
    /\ variant \in Variants
    /\ Reports(weekly_report(variant, logExists, log, now))

AppUsageStats ==
    /\ variant \in Variants
    /\ Reports(app_usage_stats(variant, logExists, log, now))

ProductivityAnalysis ==
    /\ variant \in EveryTick
    /\ Reports(productivity_analysis(variant, logExists, log, now))

CustomDateRange ==
    /\ variant \in EveryTick
    /\ \E S \in RangeDates, E \in RangeDates :
          Reports(custom_date_range(logExists, log, S, E))

GenerateReport ==
    /\ variant = "windows"
    /\ Reports(generate_report(logExists, log, now))

\* export_data: the Log is read through load_data and the frame is written,
\* with three more columns, to a new file of the exports directory.
export_data(exists, lines) ==
    LET df == linux_load_data(exists, lines) IN
    IF ~exists THEN NoData("export", "No data to export")
    ELSE IF df.frame = "none" THEN NoData("export", df.message)
    ELSE [op |-> "export", outcome |-> "exported",
          message |-> "Data exported to: exports/screentime_export.csv",
          records |-> Len(df.recs)]

\* The same with df.to_csv given LOG_FILE in place of export_file: every line
\* of the Log is rewritten with the three more columns.
ExportData_OverLog ==
    /\ variant \in EveryTick
    /\ report = NoReport
    /\ report' = export_data(logExists, log)
    /\ log' = IF report'.outcome = "exported"
                 THEN [i \in 1..Len(log) |-> [log[i] EXCEPT !.kind = "export"]]
                 ELSE log
    /\ UNCHANGED <<variant, pc, stopReason, now, ticks, logExists,
                   idle_time, locked, app_name, window_title, last_app,
                   last_window, wrote, changed, gap, lastWriteAt, lockVars>>

ExportData ==
    /\ variant \in EveryTick
    /\ Reports(export_data(logExists, log))

ReportSpec ==
    ReportInit /\ [][TodaySummary \/ WeeklyReport \/ AppUsageStats
                       \/ ProductivityAnalysis \/ CustomDateRange
                       \/ GenerateReport \/ ExportData]_vars

-----------------------------------------------------------------------------
(* The productivity score as a function of the four sums of                 *)
(* productivity_analysis: the sums are drawn, then printed.                 *)

MaxMinutes == 10

\* The four sums productivity_analysis has computed from the active records.
Sums(productive_time, social_time, entertainment_time, total_time) ==
    [op |-> "sums", outcome |-> "pending", message |-> "",
     productive |-> productive_time, social |-> social_time,
     entertainment |-> entertainment_time, total |-> total_time]

ScoreInit ==
    /\ variant \in EveryTick
    /\ logExists = TRUE
    /\ log = <<Header>>
    /\ now = ReportNow
    /\ pc = "off"
    /\ stopReason = "none"
    /\ ticks = 0
    /\ idle_time = 0
    /\ locked = FALSE
    /\ app_name = ""
    /\ window_title = T_Empty
    /\ last_app = ""
    /\ last_window = T_Empty
    /\ wrote = "none"
    /\ changed = FALSE
    /\ gap = -1
    /\ lastWriteAt = -1
    /\ LockOff
    /\ \E t \in 0..MaxMinutes : \E p \in 0..t : \E so \in 0..(t - p) :
          \E en \in 0..(t - p - so) : report = Sums(p, so, en, t)

\* The printing part of productivity_analysis.
PrintScore ==
    /\ report.op = "sums"
    /\ report' = productivity_output(report.productive, report.social,
                                     report.entertainment, report.total)
    /\ UNCHANGED <<variant, pc, stopReason, now, ticks, logExists, log,
                   idle_time, locked, app_name, window_title, last_app,
                   last_window, wrote, changed, gap, lastWriteAt, lockVars>>

ScoreSpec == ScoreInit /\ [][PrintScore]_vars

-----------------------------------------------------------------------------
(* Today's summary of a Log that holds one line that does not parse: an     *)
(* interior line, or the last one (an append in progress).                  *)

ReadInit ==
    /\ variant \in Variants
    /\ logExists = TRUE
    /\ \E recs \in LogsFrom(variant, -1, MaxRecords - 1) : \E k \in 0..Len(recs) :
          log = <<Header>> \o SubSeq(recs, 1, k)
                  \o <<Partial(Row(0, 0, "", T_Empty))>>
                  \o SubSeq(recs, k + 1, Len(recs))
    /\ now = ReportNow
    /\ pc = "off"
    /\ stopReason = "none"
    /\ ticks = 0
    /\ idle_time = 0
    /\ locked = FALSE
    /\ app_name = ""
    /\ window_title = T_Empty
    /\ last_app = ""
    /\ last_window = T_Empty
    /\ wrote = "none"
    /\ changed = FALSE
    /\ gap = -1
    /\ lastWriteAt = -1
    /\ LockOff
    /\ report = NoReport

\* today_summary of the standalone CLI with PANDAS_AVAILABLE false.
TodaySummarySimple ==
    /\ variant = "standalone"
    /\ Reports(standalone_today_summary_simple(logExists, log, now))

ReadSpec == ReadInit /\ [][TodaySummary \/ TodaySummarySimple]_vars

-----------------------------------------------------------------------------
(* The "Most Used Apps" of _today_summary_simple (standalone CLI without    *)
(* pandas) as a function of app_counts, the dict filled from today's active *)
(* records: its items are in the order the apps first occur in the Log.     *)

MaxRows == 6
TOP_N == 5

\* sorted(app_counts.items(), key=lambda x: x[1], reverse=True)[:5]: the sort
\* is stable, so items of equal count keep the order they have in the dict.
sorted_apps(items) ==
    LET Ahead(i) == {j \in 1..Len(items) :
                        \/ items[j].count > items[i].count
                        \/ items[j].count = items[i].count /\ j < i}
        At(p) == CHOOSE i \in 1..Len(items) : Cardinality(Ahead(i)) = p - 1
        shown == IF Len(items) < TOP_N THEN Len(items) ELSE TOP_N
    IN  [p \in 1..shown |-> items[At(p)]]

RankInit ==
    /\ variant = "standalone"
    /\ logExists = TRUE
    /\ log = <<Header>>
    /\ now = ReportNow
    /\ pc = "off"
    /\ stopReason = "none"
    /\ ticks = 0
    /\ idle_time = 0
    /\ locked = FALSE
    /\ app_name = ""
    /\ window_title = T_Empty
    /\ last_app = ""
    /\ last_window = T_Empty
    /\ wrote = "none"
    /\ changed = FALSE
    /\ gap = -1
    /\ lastWriteAt = -1
    /\ LockOff
    /\ report = [op |-> "app_counts", outcome |-> "pending", message |-> "",
                 items |-> <<>>]

\* One turn of the loop over active_data: app_counts[app] =
\* app_counts.get(app, 0) + 1, a new app going to the end of the dict.
CountRow ==
    /\ report.op = "app_counts"
    /\ SumOver([i \in 1..Len(report.items) |-> report.items[i].count],
               1..Len(report.items)) < MaxRows
    /\ \E a \in AppNames \ {"Idle"} :
          LET at == {i \in 1..Len(report.items) : report.items[i].app = a}
          IN  report' =
                [report EXCEPT !.items =
                    IF at = {} THEN Append(@, [app |-> a, count |-> 1])
                    ELSE [i \in 1..Len(@) |->
                            IF i \in at THEN [@[i] EXCEPT !.count = @ + 1] ELSE @[i]]]
    /\ UNCHANGED <<variant, pc, stopReason, now, ticks, logExists, log,
                   idle_time, locked, app_name, window_title, last_app,
                   last_window, wrote, changed, gap, lastWriteAt, lockVars>>

\* The printing of "Most Used Apps".
MostUsedApps ==
    /\ report.op = "app_counts"
    /\ report.items # <<>>
    /\ report' = [op |-> "ranking", outcome |-> "ranked", message |-> "",
                  items |-> report.items, ranking |-> sorted_apps(report.items)]
    /\ UNCHANGED <<variant, pc, stopReason, now, ticks, logExists, log,
                   idle_time, locked, app_name, window_title, last_app,
                   last_window, wrote, changed, gap, lastWriteAt, lockVars>>

RankSpec == RankInit /\ [][CountRow \/ MostUsedApps]_vars

-----------------------------------------------------------------------------
(* The lock file of the standalone program *)

\* The standalone program on one machine: its CLIs at their menus, no sampler
\* process, no lock file.
LockInit ==
    /\ variant = "standalone"
    /\ platform \in {"win32", "posix"}
    /\ lockFile = 0
    /\ samplers = [p \in Procs |-> "off"]
    /\ cli = [c \in Clis |-> AtMenu]
    /\ logExists = TRUE
    /\ log = <<Header>>
    /\ now = ReportNow
    /\ pc = "off"
    /\ stopReason = "none"
    /\ ticks = 0
    /\ idle_time = 0
    /\ locked = FALSE
    /\ app_name = ""
    /\ window_title = T_Empty
    /\ last_app = ""
    /\ last_window = T_Empty
    /\ wrote = "none"
    /\ changed = FALSE
    /\ gap = -1
    /\ lastWriteAt = -1
    /\ report = NoReport

trackerVars == <<variant, pc, stopReason, now, ticks, logExists, log, idle_time,
                 locked, app_name, window_title, last_app, last_window, wrote,
                 changed, gap, lastWriteAt, report>>

\* check_status: what it prints and what it leaves of the lock file. A lock
\* file whose PID is of no live process is removed where os.kill raises
\* (posix) and left where tasklist merely does not list the PID (win32).
check_status(pf, lock, procs) ==
    IF lock = 0 THEN [said |-> "NOT ACTIVE", lock |-> 0]
    ELSE IF procs[lock] # "off" THEN [said |-> "ACTIVE", lock |-> lock]
    ELSE [said |-> "NOT ACTIVE", lock |-> IF pf = "win32" THEN lock ELSE 0]

\* The program run with --track: main calls log_activity, whatever the lock
\* file holds and whatever else runs.
Track ==
    /\ \E p \in Procs :
          /\ samplers[p] = "off"
          /\ samplers' = [samplers EXCEPT ![p] = "starting"]
    /\ UNCHANGED <<trackerVars, platform, lockFile, cli>>

\* log_activity up to the loop: the lock file is opened with 'w' and the PID
\* written, then self.running = True.
WriteLock ==
    /\ \E p \in Procs :
          /\ samplers[p] = "starting"
          /\ samplers' = [samplers EXCEPT ![p] = "running"]
          /\ lockFile' = p
    /\ UNCHANGED <<trackerVars, platform, cli>>

\* The loop left by Ctrl+C or the duration limit: the finally clause removes
\* LOCK_FILE, whatever PID it holds.
SamplerExit ==
    /\ \E p \in Procs :
          /\ samplers[p] = "running"
          /\ samplers' = [samplers EXCEPT ![p] = "off"]
    /\ lockFile' = 0
    /\ UNCHANGED <<trackerVars, platform, cli>>

\* Menu choice "check status", and the verification that ends start_tracking.
CheckStatus(c) ==
    /\ cli[c].at \in {"menu", "verify"}
    /\ LET r == check_status(platform, lockFile, samplers) IN
          /\ cli' = [cli EXCEPT ![c] = [at |-> "menu", said |-> r.said]]
          /\ lockFile' = r.lock
    /\ UNCHANGED <<trackerVars, platform, samplers>>

\* start_tracking up to Popen: "already running" if check_status says so.
StartTracking(c) ==
    /\ cli[c].at = "menu"
    /\ LET r == check_status(platform, lockFile, samplers) IN
          /\ cli' = [cli EXCEPT ![c] =
                        [at |-> IF r.said = "ACTIVE" THEN "menu" ELSE "popen",
                         said |-> r.said]]
          /\ lockFile' = r.lock
    /\ UNCHANGED <<trackerVars, platform, samplers>>

\* start_tracking: subprocess.Popen of the program with --track.
Popen(c) ==
    /\ cli[c].at = "popen"
    /\ \E p \in Procs :
          /\ samplers[p] = "off"
          /\ samplers' = [samplers EXCEPT ![p] = "starting"]
    /\ cli' = [cli EXCEPT ![c].at = "verify"]
    /\ UNCHANGED <<trackerVars, platform, lockFile>>

\* stop_tracking: on win32 taskkill /F of the PID read from the lock file and
\* of every ScreenTimeTracker.exe (the samplers of a frozen build); on every
\* platform os.remove(LOCK_FILE). Nothing is killed on another platform.
StopTracking(c) ==
    /\ cli[c].at = "menu"
    /\ \E frozen \in BOOLEAN :
          LET killed == IF platform # "win32" THEN {}
                        ELSE (IF lockFile # 0 THEN {lockFile} ELSE {})
                                 \cup (IF frozen THEN Procs ELSE {})
          IN  samplers' = [p \in Procs |->
                              IF p \in killed THEN "off" ELSE samplers[p]]
    /\ lockFile' = 0
    /\ cli' = [cli EXCEPT ![c] =
                  [at |-> "menu",
                   said |-> IF platform = "win32" THEN "Tracking stopped"
                            ELSE "No tracking process found to stop"]]
    /\ UNCHANGED <<trackerVars, platform>>

LockSpec ==
    LockInit /\ [][Track \/ WriteLock \/ SamplerExit
                     \/ (\E c \in Clis : CheckStatus(c))
                     \/ (\E c \in Clis : StartTracking(c))
                     \/ (\E c \in Clis : Popen(c))
                     \/ (\E c \in Clis : StopTracking(c))]_vars

-----------------------------------------------------------------------------
(* Claims *)

\* The row the sampler has just appended, read at the sleep that follows it
\* (the locals of the iteration still hold it).
JustWrote == pc = "sleep" /\ wrote = "ok"
WrittenRow == Row(now, idle_time, app_name, window_title)

\* C1: a record counts as Active in the reports exactly if it was sampled
\* with idle_seconds < 300, the session not locked, and an app_name that is
\* not a sentinel; so a record written on a tick observed as locked or idle
\* is never counted as active.
C1_ActiveIffNotIdleNotLocked ==
    JustWrote =>
        (CountsAsActive(variant, WrittenRow)
            <=> (/\ idle_time < IDLE_THRESHOLD
                 /\ ~locked
                 /\ app_name \notin Sentinels))

\* C2: the record written on a tick is ("Screen Locked", "Screen Saver", 0)
\* if locked, else ("Idle", "System Idle", idle_seconds) if idle_seconds >= 300,
\* else the foreground app and window of the probe.
C2_RecordFollowsClassification ==
    JustWrote =>
        IF locked
        THEN WrittenRow = Row(now, 0, "Screen Locked", T_ScreenSaver)
        ELSE IF idle_time >= IDLE_THRESHOLD
        THEN WrittenRow = Row(now, idle_time, "Idle", T_SystemIdle)
        ELSE app_name \notin Sentinels

\* C3: over any sequence of sampler ticks, with any probe results and write
\* outcomes, the Log before a step of the sampler is a prefix of the Log
\* after it: a tick only appends at the end and never alters or removes a
\* line.  (Every step of the sampler moves pc; a step of the CLI does not.)
C3_TicksOnlyAppend == [][pc' # pc => IsPrefix(log, log')]_vars

\* Two consecutive ticks have each appended a record after the header.
C3_Witness ==
    /\ JustWrote
    /\ Len(log) = 3
    /\ log[1] = Header
    /\ log[2].timestamp > 0
    /\ log[3].timestamp > log[2].timestamp

\* C4 as stated: the Log is append-only with respect to every operation,
\* every Settings menu option included: every record once in the Log is
\* still in it, unchanged and in the same order.
C4_AppendOnlyUnderEveryOperation == [][IsPrefix(log, log')]_vars

\* C4 as amended: every operation other than the Settings option "clear all
\* data" confirmed with "yes" keeps every record in the Log, unchanged and
\* in order; that option deletes the Log file whole.
C4_AppendOnlyExceptClearData ==
    [][IsPrefix(log, log') \/ SettingsStep(TRUE)]_vars

\* The sampler has appended a record and the data was then cleared under it.
C4_Witness == JustWrote /\ ~logExists /\ log = <<>>

\* C5: whenever the Log file exists, its first line is the header, for
\* every interleaving of the sampler's ticks with CLI operations.
C5_HeaderIsFirstLine == logExists => (Len(log) >= 1 /\ log[1] = Header)

\* C6: in the change-or-heartbeat sampler a tick appends a record only if
\* the app or window differs from the previously written record or at least
\* 30 seconds have elapsed since the previous write.
C6_WriteOnlyOnChangeOrAfter30s ==
    (JustWrote /\ variant \in ChangeOrHeartbeat)
        => (changed \/ gap >= HEARTBEAT_MOD)

\* C7: in the change-or-heartbeat sampler, with app and window unchanged,
\* the first tick at least 30 seconds after the previous write appends a
\* record.
C7_HeartbeatAfter30s ==
    (pc = "sleep" /\ variant \in ChangeOrHeartbeat /\ gap >= HEARTBEAT_MOD)
        => wrote # "skipped"

\* C8: a failed append does not end the loop: the loop goes on to its sleep
\* and the next tick, the Log and the remembered last app and window are as
\* they were before the failed write.
C8_WriteFailureKeepsLooping ==
    [][(pc = "write" /\ wrote' = "failed")
          => (/\ pc' = "sleep"
              /\ log' = log
              /\ last_app' = last_app
              /\ last_window' = last_window)]_vars

\* C9: a failure of a probe call never propagates out of the probe
\* function: the loop is never left because of a probe.
C9_ProbeFailureNeverPropagates == stopReason # "probe_error"

\* C10: the sampling loop ends only on an explicit cancellation (interrupt
\* or external stop request).
C10_StopsOnlyOnCancellation ==
    pc = "stopped" => stopReason \in {"interrupt", "killed"}

\* C11: cancelling the sampler at any point of a tick (Ctrl+C in the loop,
\* the main thread exiting under --track, the CLI's stop killing the
\* process) completes the append in flight or discards it whole: every line
\* of the Log is a complete record, and none is partial.
C11_EveryLineComplete ==
    \A i \in 1..Len(log) : log[i].kind \in {"header", "record"}

\* The sampler was killed with a line in the buffer, after an earlier tick
\* had appended one.
C11_Witness ==
    /\ pc = "stopped"
    /\ stopReason = "killed"
    /\ wrote = "discarded"
    /\ Len(log) >= 2
    /\ log[Len(log)].kind = "record"

(* Claims about the reports *)

\* An Active record as the specification defines it: idle below the
\* threshold and not a sentinel row.
ClaimActive(rec) ==
    rec.idle_seconds < IDLE_THRESHOLD /\ rec.app_name \notin Sentinels

\* The records of the Log the report was made from.
LogRecords == SelectSeq(log, IsRecord)

HasFigures == report.op # "none" /\ report.outcome = "report"

\* The records (as indices of LogRecords) in the window of the report made:
\* today's date, the dates asked for, the last seven days as the variant
\* takes them, or the whole Log for the statistics that have no window.
InWindow(i) ==
    LET ts == LogRecords[i].timestamp
    IN  CASE report.op = "today" -> DateOf(ts) = DateOf(now)
          [] report.op = "custom" -> ts \in report.selected
          [] report.op = "weekly" /\ variant \in ChangeOrHeartbeat ->
                DateOf(ts) \in (DateOf(now) - 6)..DateOf(now)
          [] report.op = "apps" /\ variant \in ChangeOrHeartbeat -> TRUE
          [] OTHER -> ts > now - REPORT_DAYS * SECONDS_PER_DAY

WindowRecords == {i \in 1..Len(LogRecords) : InWindow(i)}
WindowActive == {i \in WindowRecords : ClaimActive(LogRecords[i])}
\* The records of the window the reports of the Linux and Windows CLIs and
\* the report script take as active.
WindowBelowThreshold ==
    {i \in WindowRecords : idle_below_threshold(LogRecords[i])}

\* C12: in every report with figures (today, weekly, per-app, custom range)
\* the active time is the number of Active records of the window (times the
\* unit), the usage of an app listed is the number of its Active records, and
\* a daily total is the number of Active records of the day: Idle and
\* Screen-Locked records add nothing to any of them.
C12_ActiveTimeCountsActiveRecords ==
    (HasFigures /\ report.op \in {"today", "weekly", "apps", "custom"}) =>
        /\ report.active = Cardinality(WindowActive)
        /\ \A a \in DOMAIN report.usage :
              report.usage[a] =
                Cardinality({i \in WindowActive : LogRecords[i].app_name = a})
        /\ "daily" \in DOMAIN report =>
              \A d \in DOMAIN report.daily :
                  report.daily[d] = Cardinality(OnDate(LogRecords, WindowActive, d))

\* C12, its example: two Active records of "Code.exe" and one idle record
\* (idle_seconds = 310) of today make 2 active minutes, all of "Code.exe".
C12_IdleRecordAddsNothing ==
    (/\ HasFigures
     /\ Len(LogRecords) = 3
     /\ WindowRecords = 1..3
     /\ Cardinality({i \in 1..3 : LogRecords[i].idle_seconds = 310}) = 1
     /\ Cardinality({i \in 1..3 : ClaimActive(LogRecords[i])}) = 2)
    => report.active = 2

\* C13: the unique_apps of a day is the number of distinct app names among
\* that day's Active records only: in a per-day rollup (daily_apps) for every
\* date listed, and in today's summary for today. An app name that occurs
\* only on records that are not Active (such as "Idle") is not counted.
C13_UniqueAppsAmongActiveOnly ==
    /\ (HasFigures /\ "daily_apps" \in DOMAIN report) =>
          \A d \in DOMAIN report.daily_apps :
              report.daily_apps[d] =
                Cardinality(AppsAt(LogRecords, OnDate(LogRecords, WindowActive, d)))
    /\ (HasFigures /\ report.op = "today" /\ "unique_apps" \in DOMAIN report) =>
          report.unique_apps = Cardinality(AppsAt(LogRecords, WindowActive))

\* C13 for the records the code itself takes as active (idle below the
\* threshold), which leaves out what C1's rows add.
C13_UniqueAppsAmongBelowThreshold ==
    (HasFigures /\ "daily_apps" \in DOMAIN report) =>
        \A d \in DOMAIN report.daily_apps :
            report.daily_apps[d] =
              Cardinality(AppsAt(LogRecords,
                  OnDate(LogRecords, WindowBelowThreshold, d)))

\* The records that open a session of app a: active records of a whose
\* predecessor in the Log is not an active record of a.
SessionStarts(a) ==
    {i \in WindowBelowThreshold :
        /\ LogRecords[i].app_name = a
        /\ ~(i - 1 \in WindowBelowThreshold /\ LogRecords[i - 1].app_name = a)}

\* C14: the "sessions" figure of an app in the per-app statistics is the
\* number of maximal runs of consecutive Active records of that app: k
\* consecutive Active records of one app are one session, not k.
C14_SessionsAreMaximalRuns ==
    (HasFigures /\ "sessions" \in DOMAIN report) =>
        \A a \in DOMAIN report.sessions :
            report.sessions[a] = Cardinality(SessionStarts(a))

\* The category the specification gives an app name: the first category, in
\* the order of the variant's table, one of whose keywords is a substring of
\* the name (case ignored), and "Other" when none is.  Computed once.
ClaimCategoryOf ==
    [v \in EveryTick |-> [a \in AppNames |->
        IF MatchesAny(a, productive_apps(v)) THEN "Productive"
        ELSE IF MatchesAny(a, social_apps(v)) THEN "Social"
        ELSE IF MatchesAny(a, entertainment_apps(v)) THEN "Entertainment"
        ELSE "Other"]]

\* C15: the productivity analysis puts every active record in the category
\* found by case-insensitive substring match of the category keywords in its
\* app name, first matching category in table order, "Other" when none
\* matches: "Code.exe" and "vscode" are both Productive.
C15_CategoryBySubstringMatch ==
    (HasFigures /\ report.op = "productivity") =>
        \A c \in DOMAIN report.categories :
            report.categories[c] =
              Cardinality({i \in WindowBelowThreshold :
                  ClaimCategoryOf[variant][LogRecords[i].app_name] = c})

FourCategories == {"Productive", "Social", "Entertainment", "Other"}

\* C16, as claimed: wherever a report shows categories they are Productive,
\* Social, Entertainment and Other, no category's time is negative, and the
\* categories' times sum to the total active time.
C16_FourCategoriesSumToTotal ==
    (HasFigures /\ "categories" \in DOMAIN report) =>
        /\ DOMAIN report.categories = FourCategories
        /\ \A c \in DOMAIN report.categories : report.categories[c] >= 0
        /\ SumOver(report.categories, DOMAIN report.categories) = report.active

\* C16, amended: each record counted as active falls in exactly one category
\* of the variant's table (Linux/Windows: Productive, Social, Entertainment,
\* Other; macOS: Development, Office/Productivity, Design, Web Browsing,
\* Communication, Entertainment, System, Other), no category's time is
\* negative, and the categories' times sum to the total active time the
\* report shows (macOS: in tenths of a minute).
C16_OneCategoryOfVariantTable ==
    (HasFigures /\ "categories" \in DOMAIN report) =>
        /\ DOMAIN report.categories =
              IF variant = "mac" THEN MacCategoryNames ELSE FourCategories
        /\ \A c \in DOMAIN report.categories : report.categories[c] >= 0
        /\ SumOver(report.categories, DOMAIN report.categories) =
              IF variant = "mac" THEN report.total_time ELSE report.active
        /\ variant = "mac" =>
              /\ report.total_time = SumOver(report.usage_tenths, DOMAIN report.usage_tenths)
              /\ \A c \in MacCategoryNames :
                    report.categories[c] =
                      SumOver(report.usage_tenths,
                              {a \in DOMAIN report.usage_tenths : MacCategoryOf[a] = c})
        /\ variant \in EveryTick =>
              /\ report.active = Cardinality(WindowBelowThreshold)
              /\ \A i \in WindowBelowThreshold :
                    Cardinality({c \in DOMAIN Listed[variant] :
                        LogRecords[i].app_name \in Listed[variant][c]}) <= 1

\* The macOS statistics with time under Development and under Other.
C16_Witness ==
    /\ variant = "mac"
    /\ HasFigures
    /\ report.op = "apps"
    /\ report.categories["Development"] > 0
    /\ report.categories["Other"] > 0

\* The bands of a score num/den (den > 0): exactly the label claimed.
LabelOfScore(score) ==
    IF score.num >= 70 * score.den THEN "Excellent"
    ELSE IF score.num >= 50 * score.den /\ score.num < 70 * score.den THEN "Good"
    ELSE IF score.num >= 30 * score.den /\ score.num < 50 * score.den THEN "Average"
    ELSE "Needs Improvement"

ScoreIs(score, productive, total) ==
    score.den > 0 /\ score.num * total = 100 * productive * score.den

\* C17, as claimed: the analysis always shows a score with one label; the
\* score is 100 * productive / total, and 0 when the total is 0; the label
\* is Excellent iff score >= 70, Good iff 50 <= score < 70, Average iff
\* 30 <= score < 50, Needs Improvement otherwise.
C17_ScoreZeroWhenNoActiveTime ==
    [][(report.op = "sums" /\ report'.op = "productivity") =>
          /\ report'.outcome = "report"
          /\ IF report.total = 0
             THEN report'.score.num = 0
             ELSE ScoreIs(report'.score, report.productive, report.total)
          /\ report'.label = LabelOfScore(report'.score)]_vars

\* C17, amended: when the total active time is positive the score is
\* 100 * productive / total with exactly the label of its band; when it is 0
\* the analysis prints "No active time recorded" and shows no score and no
\* label.
C17_ScoreAndLabelWhenActiveTime ==
    [][(report.op = "sums" /\ report'.op = "productivity") =>
          IF report.total > 0
          THEN /\ report'.outcome = "report"
               /\ ScoreIs(report'.score, report.productive, report.total)
               /\ report'.label = LabelOfScore(report'.score)
          ELSE report' = NoData("productivity", "No active time recorded")]_vars

\* A score of exactly 70 printed as Excellent.
C17_Witness ==
    /\ HasFigures
    /\ report.op = "productivity"
    /\ report.score.num = 70 * report.score.den
    /\ report.label = "Excellent"

\* A report was asked for and no record falls in its window: the Log file is
\* absent, holds only the header, or holds only records outside the window.
NoRecordInWindow ==
    /\ report.op \notin {"none", "sums", "export"}
    /\ report.outcome # "invalid"
    /\ ~logExists \/ log # <<>>
    /\ WindowRecords = {}

\* The explicit no-data outcome: a message in place of the figures, or
\* figures that are all zero with no app listed.
IsNoDataOutcome ==
    \/ report.outcome = "nodata"
    \/ report.outcome = "report" /\ report.active = 0 /\ DOMAIN report.usage = {}

NoActivityToday ==
    {"No activity recorded for today", "No activity recorded for today."}

\* C18, as claimed: when no record falls in the window the report does not
\* raise and yields the no-data outcome, and today's summary says "No
\* activity recorded for today" whether the Log is empty or absent.
C18_NoActivityMessageWhenEmptyOrAbsent ==
    NoRecordInWindow =>
        /\ report.outcome # "raised"
        /\ IsNoDataOutcome
        /\ report.op = "today" => report.message \in NoActivityToday

\* C18, amended: when no record falls in the window the report does not
\* raise and yields the no-data outcome; today's summary says "No activity
\* recorded for today" when the Log holds no record of today, except that
\* the Linux and Windows CLIs say "No data found. Start the tracker first!"
\* when the file is absent and the macOS CLI says "No data available for
\* today." when the file is absent or holds no record at all.
C18_NoDataOutcomeNeverRaises ==
    NoRecordInWindow =>
        /\ report.outcome # "raised"
        /\ IsNoDataOutcome
        /\ report.op = "today" =>
              report.message =
                CASE variant \in EveryTick /\ ~logExists ->
                        "No data found. Start the tracker first!"
                  [] variant = "mac" /\ LogRecords = <<>> ->
                        "No data available for today."
                  [] variant = "mac" -> "No activity recorded for today."
                  [] OTHER -> "No activity recorded for today"

\* Today's summary of the Linux CLI asked for with no Log file.
C18_Witness ==
    /\ variant = "linux"
    /\ ~logExists
    /\ report.op = "today"
    /\ report.outcome = "nodata"

\* C19: the daily breakdown of a weekly report has exactly one entry for
\* each of the 7 calendar days of the window (the 7 days ending today), 0
\* for a day without records, and the daily average is the total of the
\* breakdown divided by 7.
C19_SevenDaysAndAverage ==
    (HasFigures /\ report.op = "weekly") =>
        /\ DOMAIN report.daily = (DateOf(now) - 6)..DateOf(now)
        /\ \A d \in DOMAIN report.daily :
              OnDate(LogRecords, 1..Len(LogRecords), d) = {} => report.daily[d] = 0
        /\ report.average.num * REPORT_DAYS =
              SumOver(report.daily, DOMAIN report.daily) * report.average.den

\* C19 for the macOS CLI alone, whose loop runs over the seven days.
C19_SevenDaysOnMac ==
    variant = "mac" => C19_SevenDaysAndAverage

\* C20: a custom date range with start date S and end date E selects exactly
\* the records with S 00:00:00 <= timestamp < (E + 1 day) 00:00:00, that is
\* the records dated S to E: with S = E every timestamp of that date is
\* selected and 00:00:00 of the next day is not.
C20_RangeIsHalfOpen ==
    (report.op = "custom" /\ report.outcome # "invalid" /\ logExists /\ log # <<>>) =>
        /\ report.selected =
              {LogRecords[i].timestamp : i \in
                  {j \in 1..Len(LogRecords) :
                      /\ Midnight(report.start) <= LogRecords[j].timestamp
                      /\ LogRecords[j].timestamp < Midnight(report.end + 1)}}
        /\ \A i \in 1..Len(LogRecords) :
              LogRecords[i].timestamp \in report.selected <=>
                  DateOf(LogRecords[i].timestamp) \in report.start..report.end

\* A one-day range over a Log with a record in the last second of the day,
\* selected, and one at 00:00:00 of the next day, not selected.
C20_Witness ==
    /\ report.op = "custom"
    /\ report.start = 1
    /\ report.end = 1
    /\ Midnight(2) - 1 \in report.selected
    /\ \E i \in 1..Len(LogRecords) : LogRecords[i].timestamp = Midnight(2)
    /\ Midnight(2) \notin report.selected

\* C21: when the custom range typed is invalid (a date that does not parse
\* as YYYY-MM-DD, or a start date after the end date) custom_date_range
\* prints a validation message and stops before the Log is loaded.
C21_InvalidRangeAbortsBeforeLoad ==
    (report.op = "custom"
        /\ (report.start < 0 \/ report.end < 0 \/ report.start > report.end)) =>
        /\ report.outcome = "invalid"
        /\ ~report.loaded

\* C21 for a date that does not parse: the message is printed and the Log
\* is not loaded.
C21_UnparseableDateAborts ==
    (report.op = "custom" /\ (report.start < 0 \/ report.end < 0)) =>
        /\ report.outcome = "invalid"
        /\ ~report.loaded

RECURSIVE CharsBefore(_, _)
\* Ascending order of two names, as sequences of code points.
CharsBefore(x, y) ==
    IF x = <<>> THEN y # <<>>
    ELSE IF y = <<>> THEN FALSE
    ELSE IF Head(x) # Head(y) THEN Head(x) < Head(y)
    ELSE CharsBefore(Tail(x), Tail(y))

\* The order the specification ranks by: descending usage, then ascending
\* app_name.
RanksBefore(x, y) ==
    \/ x.count > y.count
    \/ x.count = y.count /\ CharsBefore(NameChars(x.app), NameChars(y.app))

\* C22: a top-N ranking is ordered by descending usage and, among apps of
\* equal usage, by ascending app_name, and holds the N apps that come first
\* in that order (all of them when there are fewer than N).
C22_RankingByUsageThenName ==
    report.op = "ranking" =>
        LET r == report.ranking
            ranked == {r[p] : p \in 1..Len(r)}
            all == {report.items[i] : i \in 1..Len(report.items)}
        IN  /\ \A p, q \in 1..Len(r) : p < q => RanksBefore(r[p], r[q])
            /\ \A x \in ranked, y \in all \ ranked : RanksBefore(x, y)

\* C22 without the tie-break: the ranking is by descending usage and holds
\* N apps none of which has less usage than an app left out.
C22_RankingByUsage ==
    report.op = "ranking" =>
        LET r == report.ranking
            ranked == {r[p] : p \in 1..Len(r)}
            all == {report.items[i] : i \in 1..Len(report.items)}
        IN  /\ ranked \subseteq all
            /\ Len(r) = (IF Len(report.items) < TOP_N THEN Len(report.items) ELSE TOP_N)
            /\ \A p, q \in 1..Len(r) : p < q => r[p].count >= r[q].count
            /\ \A x \in ranked, y \in all \ ranked : x.count >= y.count

\* app_counts as filled from the same records with the first occurrences of
\* two neighbouring apps the other way round in the Log.
ItemsSwapped(items, i) ==
    [k \in 1..Len(items) |->
        IF k = i THEN items[i + 1] ELSE IF k = i + 1 THEN items[i] ELSE items[k]]

\* C23: a report does not depend on the order of the records in the Log: the
\* "Most Used Apps" printed from the same records in another line order (any
\* exchange of two neighbouring first occurrences) is the same.
C23_OutputIgnoresRecordOrder ==
    report.op = "ranking" =>
        \A i \in 1..(Len(report.items) - 1) :
            sorted_apps(ItemsSwapped(report.items, i)) = report.ranking

\* The Log without the lines that do not parse.
WellFormedLines == SelectSeq(log, LAMBDA line : line.kind # "partial")

\* C24: a line of the Log that does not parse is skipped and nothing else:
\* today's summary of such a Log is the summary of the same Log without
\* that line, every record before and after it counted.
C24_MalformedLineSkipped ==
    report.op = "today" =>
        report = today_summary(variant, logExists, WellFormedLines, now)

\* C24 for a last line that does not parse, read without pandas: the
\* records before it are all counted.
C24_PartialLastLineSkippedBySimpleReader ==
    (report.op = "today" /\ log[Len(log)].kind = "partial") =>
        standalone_today_summary_simple(logExists, log, now) =
            today_summary("standalone", logExists, WellFormedLines, now)

\* C25: the window_title of every record in the Log holds ASCII characters
\* only, whatever the probe answered and whichever sampler wrote it.
C25_TitlesAreAscii ==
    \A i \in 1..Len(log) :
        log[i].kind = "record" =>
            \A k \in 1..Len(log[i].window_title) : IsAscii(log[i].window_title[k])

\* C25 for the Linux and Windows trackers, which clean the title before the
\* append.
C25_TitlesAreAsciiWhereCleaned ==
    variant \in EveryTick => C25_TitlesAreAscii

\* C27: every report operation (today's summary, the weekly report, the app
\* usage statistics, the productivity analysis, the custom date range, the
\* generated report and the export) leaves the Log as it found it: the file
\* exists after the step exactly if it existed before, with the same lines.
C27_ReportsLeaveLogUnchanged ==
    [][log' = log /\ logExists' = logExists]_vars

\* An export of a Log that holds records has been made.
C27_Witness ==
    /\ report.op = "export"
    /\ report.outcome = "exported"
    /\ report.records > 0
    /\ logExists /\ Len(log) = report.records + 1

\* The records the running sampler has written since it started, as a Log of
\* their own, and the time the sampler has covered: one interval per
\* iteration of its loop.
SamplerStartedAt == now - (ticks - 1) * Interval(variant)
OwnRecords ==
    LET Own(l) == IsRecord(l) /\ l.timestamp >= SamplerStartedAt
    IN  <<Header>> \o SelectSeq(log, Own)
CoveredTime == ticks * Interval(variant)
AttributedToday == today_summary(variant, TRUE, OwnRecords, now)

\* C28: the time unit the aggregator gives a record matches the cadence at
\* which the sampler writes: after the sampler has covered T seconds, every
\* record it wrote being of an Active user (no sentinel, idle below the
\* threshold), today's summary attributes no more than T seconds plus one
\* unit of active time.
C28_RecordUnitMatchesWriteCadence ==
    (/\ pc = "sleep"
     /\ AttributedToday.outcome = "report"
     /\ AttributedToday.active = Len(OwnRecords) - 1
     /\ \A i \in 2..Len(OwnRecords) :
            /\ OwnRecords[i].app_name \notin Sentinels
            /\ OwnRecords[i].idle_seconds < IDLE_THRESHOLD)
        => AttributedToday.active * AttributedToday.unit
               <= CoveredTime + AttributedToday.unit

\* Where a record is written on every iteration (Linux, Windows) the unit is
\* the interval: the time attributed to the sampler's records, Active or
\* not, is never more than the time covered.
C28_UnitIsIntervalWhereEveryTickWrites ==
    (pc = "sleep" /\ variant \in EveryTick)
        => (Len(OwnRecords) - 1) * LOG_INTERVAL <= CoveredTime

\* The samplers in their loop, appending to the Log.
RunningSamplers == {p \in Procs : samplers[p] = "running"}

\* C26: at most one sampler of the standalone program is in its loop at any
\* time, whether started from a CLI's start_tracking or with --track.
C26_AtMostOneSampler ==
    Cardinality(RunningSamplers) <= 1

\* C29: the lock file mirrors the sampler's lifecycle: a sampler is in its
\* loop exactly if the lock file exists and holds the PID of a sampler in its
\* loop.
C29_LockMirrorsSamplerLifecycle ==
    RunningSamplers # {} <=> (lockFile # 0 /\ lockFile \in RunningSamplers)

\* C29, of check_status: it says ACTIVE exactly if a sampler is in its loop.
C29_ActiveExactlyWhenSamplerRuns ==
    [][\A c \in Clis :
          CheckStatus(c)
              => (cli'[c].said = "ACTIVE" <=> RunningSamplers # {})]_vars

\* C30: when stop_tracking is called with a sampler in its loop whose PID the
\* lock file holds, then after it that sampler is not running and the lock
\* file is absent, on every platform.
C30_StopTrackingStopsTheSampler ==
    [][\A c \in Clis :
          (StopTracking(c) /\ lockFile \in RunningSamplers)
              => (lockFile \notin RunningSamplers' /\ lockFile' = 0)]_vars

\* On win32 it is so: the PID of the lock file is killed before the file is
\* removed.
C30_StopTrackingStopsTheSamplerOnWindows ==
    [][\A c \in Clis :
          (StopTracking(c) /\ platform = "win32" /\ lockFile \in RunningSamplers)
              => (lockFile \notin RunningSamplers' /\ lockFile' = 0)]_vars

====
